---- MODULE Spec2Model ----
(***************************************************************************)
(* A model of the SBOM vulnerability checker's scan lifecycle:             *)
(*   - the Celery task scan_sbom           (backend/app/celery_worker.py)  *)
(*   - the Trivy adapter TrivyService      (services/trivy_service.py)     *)
(*   - the HTTP handlers that queue, read and delete                       *)
(*                                         (routers/sbom.py, scan.py)      *)
(*   - the four tables                     (models/__init__.py)            *)
(* The database is PostgreSQL at READ COMMITTED: a session sees the        *)
(* committed rows and the rows of its own open transaction.  Each table is *)
(* the set of its committed rows; each task's session holds the rows it    *)
(* has added (new) and the rows it has flushed but not committed.          *)
(***************************************************************************)
EXTENDS Integers, Sequences, FiniteSets, TLC

\* ------------------------------------------------------------- bounds
\* Task executions ever queued (scan_sbom.delay calls).
MaxJobs == 2
\* Findings in one Trivy report.
MaxFindings == 2
\* SBOM rows ever stored.
MaxSboms == 1

JobIds == 1..MaxJobs

\* ---------------------------------------------------------- constants
\* A NULL column value (a column left unset whose Column has no default).
NULL == -1

\* subprocess.run(..., timeout=300) in TrivyService.scan_sbom.
ScanTimeoutSeconds == 300

\* if len(contents) > 52428800 in upload_sbom_file.
MaxUploadBytes == 52428800

\* The five severity buckets of _parse_trivy_result.
SeverityBuckets == {"CRITICAL", "HIGH", "MEDIUM", "LOW", "UNKNOWN"}

\* ------------------------------------------------------------- inputs
\* Uploaded documents, by their bytes' SHA-256 (file_hash), their length in
\* bytes and what SBOMParser.parse makes of them.
Docs ==
  { [file_hash |-> "h1", size |-> 2048, parses |-> TRUE, format |-> "cyclonedx",
     raw_data |-> [components |-> <<"log4j-core">>]],
    [file_hash |-> "h2", size |-> 2048, parses |-> TRUE, format |-> "spdx",
     raw_data |-> [packages |-> <<>>]],
    [file_hash |-> "h3", size |-> 2048, parses |-> FALSE, format |-> "",
     raw_data |-> <<>>],
    [file_hash |-> "h4", size |-> MaxUploadBytes + 1, parses |-> TRUE,
     format |-> "cyclonedx", raw_data |-> [components |-> <<"log4j-core">>]] }

\* The names of the uploaded files: << stem, extension >>.
Filenames == { << "bom", ".json" >>, << "bom", ".txt" >> }

\* Dates as Trivy prints them; datetime.fromisoformat rejects the last one
\* (a fraction of one digit) on Python < 3.11, "" means no date.
GoodDate == "2021-12-10T10:15:09Z"
BadDate == "2021-12-10T10:15:09.1Z"

\* The entries of a Trivy result's "Vulnerabilities" list.
Findings ==
  { [VulnerabilityID |-> "CVE-1", Severity |-> "HIGH", PkgName |-> "log4j-core",
     InstalledVersion |-> "2.14.1", PublishedDate |-> GoodDate],
    [VulnerabilityID |-> "CVE-2", Severity |-> "CRITICAL", PkgName |-> "zlib",
     InstalledVersion |-> "1.2.11", PublishedDate |-> BadDate],
    [VulnerabilityID |-> "CVE-2", Severity |-> "NEGLIGIBLE", PkgName |-> "log4j-core",
     InstalledVersion |-> "2.14.1", PublishedDate |-> ""] }

FindingLists == UNION { [1..n -> Findings] : n \in 0..MaxFindings }

\* What the subprocess can print on stdout: a JSON report (one target), a
\* JSON report with no "Results", or text that is not the JSON report.
Garbage == [garbage |-> TRUE]
TrivyReports ==
  { [Results |-> << [Target |-> "sbom.json", Vulnerabilities |-> v] >>] : v \in FindingLists }
  \cup { [Results |-> << >>] }
Stdouts == TrivyReports \cup { Garbage }

\* Exit codes of the subprocess: 0 no findings, 1 findings, 2 an error.
ExitCodes == {0, 1, 2}

\* What the subprocess prints on stderr.
Stderrs == {"FATAL: unsupported SBOM"}

\* Seconds the subprocess needs before it exits on its own.  Never stands
\* for a subprocess that does not exit on its own at all.
Never == 2 * ScanTimeoutSeconds
RunTimes == {7, Never}

VARIABLES
  SBOM,               \* committed rows of table sboms
  ScanResult,         \* committed rows of table scan_results
  ScanVulnerability,  \* committed rows of table scan_vulnerabilities
  Vulnerability,      \* committed rows of table vulnerabilities
  seq,                \* the id generators (uuid4, the tables' serial ids)
  tasks,              \* the scan_sbom task executions: state, position, locals
  db,                 \* each task's SessionLocal()
  trivy,              \* each task's call of trivy_service.scan_sbom
  tempfiles,          \* the temporary SBOM files that exist, by task
  reader,             \* a client of GET /api/v1/scan/{sbom_id}/result
  http,               \* a client of the POST endpoints: its last request's outcome
  matcher             \* an evaluation of the matcher's functions: input and result

vars == << SBOM, ScanResult, ScanVulnerability, Vulnerability, seq, tasks, db,
           trivy, tempfiles, reader, http, matcher >>

\* ------------------------------------------------------------ helpers
\* dict.get(k, default)
Get(d, k, default) == IF k \in DOMAIN d THEN d[k] ELSE default

NoResult == [status |-> "none"]
NoPayload == [status |-> "none"]

\* A task that scan_sbom.delay has not created yet.
NoTask ==
  [ state |-> "none", pc |-> "none", sbom_id |-> 0, sbom |-> NoResult,
    scan_results |-> NoResult,
    scan_duration |-> 0, idx |-> 0, scan_result_id |-> 0, ret |-> NoPayload,
    \* history: the exception the except clause caught and the position it
    \* was raised at, the statuses of the ScanResult rows the task committed
    raised |-> << >>, raised_at |-> "none", wrote |-> {} ]

\* SessionLocal(): no transaction yet, nothing added.
NewSession ==
  [ state |-> "clean",
    new |-> [ScanResult |-> {}, Vulnerability |-> {}, ScanVulnerability |-> {}],
    flushed |-> [ScanResult |-> {}, Vulnerability |-> {}, ScanVulnerability |-> {}] ]

\* No subprocess yet: proc is its state, runs the number of subprocess.run
\* calls, runtime the seconds it needs.
NoCall == [proc |-> "none", runs |-> 0, runtime |-> 0]

\* A reader between two requests, with the response of the last one.
NoResponse == [status_code |-> 0]
Idle == [pc |-> "idle", scan_result |-> NoResult, response |-> NoResponse]

\* A client that has sent no POST request yet.  Of a request it keeps the
\* response (status_code, code of the error detail, is_duplicate, sbom_id,
\* scan_task_id) and, beside it, whether the handler called SBOMParser.parse.
NoRequest ==
  [ status_code |-> 0, code |-> "", is_duplicate |-> FALSE, sbom_id |-> 0,
    scan_task_id |-> 0, parsed |-> FALSE ]

\* No function of the matcher has been evaluated.
NoEvaluation == [op |-> "none"]

Init ==
  /\ SBOM = {}
  /\ ScanResult = {}
  /\ ScanVulnerability = {}
  /\ Vulnerability = {}
  /\ seq = [SBOM |-> 1, ScanResult |-> 1, Vulnerability |-> 1]
  /\ tasks = [j \in JobIds |-> NoTask]
  /\ db = [j \in JobIds |-> NewSession]
  /\ trivy = [j \in JobIds |-> NoCall]
  /\ tempfiles = {}
  /\ reader = Idle
  /\ http = NoRequest
  /\ matcher = NoEvaluation

\* ------------------------------------------------- the Trivy adapter
\* Error texts are the f-string's pieces: << fixed text, interpolated text >>.
ZeroCounts == [b \in SeverityBuckets |-> 0]

\* The "failed" dicts scan_sbom returns.
FailedResult(error_msg) ==
  [ status |-> "failed", error |-> error_msg, vulnerabilities |-> << >>,
    severity_counts |-> ZeroCounts ]

\* A variant without the except subprocess.TimeoutExpired clause: the
\* timeout falls to except Exception and is reported like any other error.
TimeoutMessage_Generic == << "Trivy scan error: ", "TimeoutExpired" >>

\* except subprocess.TimeoutExpired: error_msg = "Trivy scan timed out"
TimeoutMessage == << "Trivy scan timed out" >>

\* else branch of the return code test: f"Trivy scan failed: {result.stderr}"
ExitMessage(stderr) == << "Trivy scan failed: ", stderr >>

\* except Exception as e: f"Trivy scan error: {str(e)}"
ErrorMessage(e) == << "Trivy scan error: ", e >>

\* for result in results: for vuln in vulns: ... (the nested loops, in order)
RECURSIVE FlattenResults(_)
FlattenResults(results) ==
  IF results = << >> THEN << >>
  ELSE LET result == Head(results)
           target == Get(result, "Target", "unknown")
           vulns == Get(result, "Vulnerabilities", << >>)
       IN [ i \in 1..Len(vulns) |->
              [ cve_id |-> Get(vulns[i], "VulnerabilityID", "UNKNOWN"),
                severity |-> Get(vulns[i], "Severity", "UNKNOWN"),
                component_name |-> Get(vulns[i], "PkgName", "unknown"),
                component_version |-> Get(vulns[i], "InstalledVersion", "unknown"),
                target |-> target,
                published_date |-> Get(vulns[i], "PublishedDate", "") ] ]
            \o FlattenResults(Tail(results))

\* A variant that counts every severity under its own name.
Bucket_AsIs(severity) == severity

\* if severity in severity_counts: ... else: severity_counts["UNKNOWN"] += 1
Bucket(severity) == IF severity \in SeverityBuckets THEN severity ELSE "UNKNOWN"

_parse_trivy_result(trivy_result) ==
  LET vulnerabilities == FlattenResults(Get(trivy_result, "Results", << >>))
      vulnerable_components ==
        { << vulnerabilities[i].component_name, vulnerabilities[i].component_version >> :
            i \in 1..Len(vulnerabilities) }
  IN [ status |-> "success",
       vulnerabilities |-> vulnerabilities,
       severity_counts |->
         [ b \in SeverityBuckets |->
             Cardinality({ i \in 1..Len(vulnerabilities) :
                             Bucket(vulnerabilities[i].severity) = b }) ],
       vulnerable_components_count |-> Cardinality(vulnerable_components),
       total_vulnerabilities |-> Len(vulnerabilities) ]

\* A variant that takes only exit code 0 for success.
ExitOk_ZeroOnly(returncode) == returncode = 0

\* if result.returncode == 0 or result.returncode == 1
ExitOk(returncode) == returncode = 0 \/ returncode = 1

\* What scan_sbom returns once subprocess.run has returned: json.loads and
\* _parse_trivy_result raise on text that is not the report, and the outer
\* except Exception turns that into a failed result.
CompletedResult(returncode, stdout, stderr) ==
  IF ExitOk(returncode)
  THEN IF stdout = Garbage
       THEN FailedResult(ErrorMessage("JSONDecodeError"))
       ELSE _parse_trivy_result(stdout)
  ELSE FailedResult(ExitMessage(stderr))

\* A variant of subprocess.run without a timeout.
TimesOut_Never(runtime) == FALSE

\* subprocess.run(..., timeout=300) raises TimeoutExpired (after killing the
\* child) when the child needs longer than the timeout.
TimesOut(runtime) == runtime > ScanTimeoutSeconds

\* The child ends by itself after runtime seconds.
ExitsOnItsOwn(runtime) == runtime < Never

\* finally: if os.path.exists(temp_path): os.unlink(temp_path)
Unlink(files, j) == files \ {j}

\* ------------------------------------------------------- the session
NoRows == [ScanResult |-> {}, Vulnerability |-> {}, ScanVulnerability |-> {}]
Tables == {"ScanResult", "Vulnerability", "ScanVulnerability"}

\* db.add(obj)
Add(s, table, row) == [s EXCEPT !.new[table] = @ \cup {row}]

\* A flush that sends nothing: the added rows stay pending.
Flush_Deferred(s) == [s EXCEPT !.state = "active"]

\* db.flush() that succeeds: the INSERTs of the added rows are in the open
\* transaction.
Flush(s) ==
  [ state |-> "active", new |-> NoRows,
    flushed |-> [t \in Tables |-> s.flushed[t] \cup s.new[t]] ]

\* A flush or COMMIT that raises: the transaction is rolled back and the
\* session refuses further work until rollback() (PendingRollbackError).
Failed(s) == [ state |-> "inactive", new |-> NoRows, flushed |-> NoRows ]

\* After db.commit(), db.rollback() or db.close().
Ended(s) == [ state |-> "clean", new |-> NoRows, flushed |-> NoRows ]

\* The rows a session's queries see besides the committed ones.
Own(s, table) == s.flushed[table]

\* ------------------------------------------------------ the task queue
Created == { j \in JobIds : tasks[j].state # "none" }

\* scan_sbom.delay(sbom_id): a new task instance, queued.
delay(sbom_id) ==
  LET j == Cardinality(Created) + 1 IN
  /\ j \in JobIds
  /\ tasks' = [tasks EXCEPT ![j] =
                 [NoTask EXCEPT !.state = "queued", !.pc = "queued", !.sbom_id = sbom_id]]

\* ------------------------------------------------------- HTTP handlers
\* file.filename.endswith(('.json', '.xml'))
EndsWithJsonOrXml(filename) == filename[Len(filename)] \in {".json", ".xml"}

\* db.query(SBOM).filter(SBOM.file_hash == file_hash): the stored SBOMs with
\* the fingerprint of the uploaded bytes.
Existing(doc) == { s \in SBOM : s.file_hash = doc.file_hash }

\* A variant of the upload without the duplicate check.
UploadPath_NoDedup(doc, filename) ==
  IF doc.size > MaxUploadBytes THEN "FILE_TOO_LARGE"
  ELSE IF ~EndsWithJsonOrXml(filename) THEN "INVALID_FILE_FORMAT"
  ELSE IF ~doc.parses THEN "PARSE_ERROR"
  ELSE "stored"

\* A variant of the upload that stores what the parser rejects.
UploadPath_Lenient(doc, filename) ==
  IF doc.size > MaxUploadBytes THEN "FILE_TOO_LARGE"
  ELSE IF ~EndsWithJsonOrXml(filename) THEN "INVALID_FILE_FORMAT"
  ELSE IF Existing(doc) # {} THEN "duplicate"
  ELSE "stored"

\* The way an upload takes through upload_sbom_file (lines 25-93): the checks
\* in their order, each failed check named by the code of its error detail.
UploadPath(doc, filename) ==
  IF doc.size > MaxUploadBytes THEN "FILE_TOO_LARGE"
  ELSE IF ~EndsWithJsonOrXml(filename) THEN "INVALID_FILE_FORMAT"
  ELSE IF Existing(doc) # {} THEN "duplicate"
  ELSE IF ~doc.parses THEN "PARSE_ERROR"
  ELSE "stored"

\* SBOMParser.parse (line 88) was called on that way.
Parsed(path) == path \in {"PARSE_ERROR", "stored"}

\* db.commit() of line 105 raises IntegrityError: file_hash is unique.
HashTaken(doc) == \E s \in SBOM : s.file_hash = doc.file_hash

\* What the client gets from POST /api/v1/sbom/upload.
upload_response(doc, filename) ==
  LET path == UploadPath(doc, filename) IN
  IF path = "duplicate"
  THEN LET existing == CHOOSE e \in Existing(doc) : TRUE IN
       [ status_code |-> 200, code |-> "", is_duplicate |-> TRUE, sbom_id |-> existing.id,
         scan_task_id |-> Cardinality(Created) + 1, parsed |-> Parsed(path) ]
  ELSE IF path = "stored"
  THEN IF HashTaken(doc)
       THEN [NoRequest EXCEPT !.status_code = 500, !.code = "UPLOAD_FAILED",
                              !.parsed = Parsed(path)]
       ELSE [ status_code |-> 200, code |-> "", is_duplicate |-> FALSE,
              sbom_id |-> seq.SBOM, scan_task_id |-> Cardinality(Created) + 1,
              parsed |-> Parsed(path) ]
  ELSE [NoRequest EXCEPT !.status_code = 400, !.code = path, !.parsed = Parsed(path)]

\* POST /api/v1/sbom/upload, without the response.
upload_sbom_file(doc, filename) ==
  LET path == UploadPath(doc, filename) IN
  IF path = "duplicate"
  THEN \* no parse, no new row, a rescan of the stored SBOM
       /\ \E s \in Existing(doc) : delay(s.id)
       /\ UNCHANGED << SBOM, ScanResult, ScanVulnerability, Vulnerability, seq, db,
                       trivy, tempfiles, reader, matcher >>
  ELSE IF path = "stored" /\ ~HashTaken(doc)
  THEN /\ seq.SBOM <= MaxSboms
       /\ SBOM' = SBOM \cup { [id |-> seq.SBOM, filename |-> filename,
                               file_hash |-> doc.file_hash,
                               format |-> doc.format, content_json |-> doc.raw_data] }
       /\ seq' = [seq EXCEPT !.SBOM = @ + 1]
       /\ delay(seq.SBOM)
       /\ UNCHANGED << ScanResult, ScanVulnerability, Vulnerability, db, trivy, tempfiles,
                       reader, matcher >>
  ELSE \* HTTPException 400, or 500 UPLOAD_FAILED after the failed commit
       UNCHANGED << SBOM, ScanResult, ScanVulnerability, Vulnerability, seq, tasks, db,
                    trivy, tempfiles, reader, matcher >>

\* What the client gets from POST /api/v1/scan/{sbom_id}/rescan.
rescan_response(sbom_id) ==
  IF \E s \in SBOM : s.id = sbom_id
  THEN [NoRequest EXCEPT !.status_code = 200, !.sbom_id = sbom_id,
                         !.scan_task_id = Cardinality(Created) + 1]
  ELSE [NoRequest EXCEPT !.status_code = 404]

\* POST /api/v1/scan/{sbom_id}/rescan, without the response.
rescan_sbom(sbom_id) ==
  IF \E s \in SBOM : s.id = sbom_id
  THEN /\ delay(sbom_id)
       /\ UNCHANGED << SBOM, ScanResult, ScanVulnerability, Vulnerability, seq, db,
                       trivy, tempfiles, reader, matcher >>
  ELSE \* 404 SBOM not found
       UNCHANGED << SBOM, ScanResult, ScanVulnerability, Vulnerability, seq, tasks, db,
                    trivy, tempfiles, reader, matcher >>

\* DELETE /api/v1/sbom/{sbom_id}: the SBOM row and its ScanResult rows (the
\* ScanVulnerability rows are not touched).
delete_sbom(sbom_id) ==
  /\ \E s \in SBOM : s.id = sbom_id
  /\ ScanResult' = { r \in ScanResult : r.sbom_id # sbom_id }
  /\ SBOM' = { s \in SBOM : s.id # sbom_id }
  /\ UNCHANGED << ScanVulnerability, Vulnerability, seq, tasks, db, trivy, tempfiles, reader, http, matcher >>

\* ------------------------------------------------ the scan_sbom task
\* UUID(sbom_id) accepts the id (the ids of the model are the uuid4 values
\* the SBOM table handed out).
IsUUID(sbom_id) == sbom_id \in Nat \ {0}

\* A variant whose except clause catches the scanner's errors only.
Caught_ScannerOnly(e) ==
  Head(e) \in {"Trivy scan failed", "Trivy scan failed: ", "Trivy scan error: ",
               "Trivy scan timed out"}

\* except Exception as e: every exception raised in the task body is caught.
Caught(e) == TRUE

\* A variant that reports the error of the failed write of the failed row.
Reported_Secondary(e, secondary) == IF secondary # << >> THEN secondary ELSE e

\* "error": str(e) of the return in the except clause: e is the exception the
\* body raised, secondary the one the write of the failed row raised.
Reported(e, secondary) == e

\* A variant whose except clause marks the scan's own row failed instead of
\* inserting another row.
failed_scan_Update(j, t) ==
  [ id |-> IF t.scan_result_id # 0 THEN t.scan_result_id ELSE seq.ScanResult,
    sbom_id |-> t.sbom_id, status |-> "failed",
    total_components |-> 0, vulnerable_count |-> 0, critical_count |-> 0,
    high_count |-> 0, medium_count |-> 0, low_count |-> 0,
    scan_duration_seconds |-> NULL, task |-> j, findings |-> 0 ]

\* The ScanResult the except clause builds (the counts of the severities are
\* the Column defaults, scan_duration_seconds is left unset).
failed_scan(j, t) ==
  [ id |-> seq.ScanResult, sbom_id |-> t.sbom_id, status |-> "failed",
    total_components |-> 0, vulnerable_count |-> 0, critical_count |-> 0,
    high_count |-> 0, medium_count |-> 0, low_count |-> 0,
    scan_duration_seconds |-> NULL,
    \* history, no column: the execution and the number of its findings
    task |-> j, findings |-> 0 ]

\* The rows db.commit() of the except clause writes: everything the session
\* still holds (nothing was rolled back before) and the failed row; nothing
\* when the session is inactive or the database fails (except: db.rollback()).
FallbackRows(j, t, s, db_ok) ==
  IF s.state # "inactive" /\ db_ok
  THEN Flush(Add(s, "ScanResult", failed_scan(j, t))).flushed
  ELSE NoRows

\* A variant with automatic retry: a failed execution is queued again.
Return_Retry(j, t, state, payload) ==
  /\ tasks' = [tasks EXCEPT ![j] =
                 IF state = "failed"
                 THEN [NoTask EXCEPT !.state = "queued", !.pc = "queued",
                                     !.sbom_id = t.sbom_id]
                 ELSE [NoTask EXCEPT !.state = state, !.pc = "done", !.sbom_id = t.sbom_id,
                                     !.scan_result_id = t.scan_result_id,
                                     !.ret = payload, !.raised = t.raised,
                                     !.raised_at = t.raised_at, !.wrote = t.wrote]]
  /\ db' = [db EXCEPT ![j] = Ended(db[j])]

\* return of a payload, then finally: db.close().  The locals are gone; what
\* is kept of the execution is its payload and its history.
Return(j, t, state, payload) ==
  /\ tasks' = [tasks EXCEPT ![j] =
                 [NoTask EXCEPT !.state = state, !.pc = "done", !.sbom_id = t.sbom_id,
                                !.scan_result_id = t.scan_result_id,
                                !.ret = payload, !.raised = t.raised,
                                !.raised_at = t.raised_at, !.wrote = t.wrote]]
  /\ db' = [db EXCEPT ![j] = Ended(db[j])]

\* The except clause (lines 207-228), entered with exception e while the
\* task's locals are t and its session is s.
handler(j, t, s, e, db_ok) ==
  LET rows == FallbackRows(j, t, s, db_ok)
      written == rows.ScanResult # {}
      secondary == IF written THEN << >> ELSE << "PendingRollbackError" >>
  IN IF Caught(e)
     THEN /\ ScanResult' = ScanResult \cup rows.ScanResult
          /\ Vulnerability' = Vulnerability \cup rows.Vulnerability
          /\ ScanVulnerability' = ScanVulnerability \cup rows.ScanVulnerability
          /\ seq' = IF written THEN [seq EXCEPT !.ScanResult = @ + 1] ELSE seq
          /\ Return(j, [t EXCEPT !.raised = e, !.raised_at = t.pc,
                                 !.wrote = @ \cup { r.status : r \in rows.ScanResult }],
                    "failed",
                    [ status |-> "failed", error |-> Reported(e, secondary),
                      sbom_id |-> t.sbom_id ])
     ELSE \* the exception leaves the task: the worker sees it raise
          /\ Return(j, [t EXCEPT !.raised = e, !.raised_at = t.pc], "raised", NoPayload)
          /\ UNCHANGED << ScanResult, Vulnerability, ScanVulnerability, seq >>

\* The worker takes the task off the queue (task_track_started: STARTED).
worker_dequeue(j) ==
  /\ tasks[j].pc = "queued"
  /\ tasks' = [tasks EXCEPT ![j].state = "running", ![j].pc = "start"]
  /\ UNCHANGED << SBOM, ScanResult, ScanVulnerability, Vulnerability, seq, db,
                  trivy, tempfiles, reader, http, matcher >>

\* len(sbom.content_json.get(...)) by format (lines 130-139)
TotalComponents(sbom) ==
  IF sbom.format = "cyclonedx" THEN Len(Get(sbom.content_json, "components", << >>))
  ELSE IF sbom.format = "spdx" THEN Len(Get(sbom.content_json, "packages", << >>))
  ELSE LET components == Get(sbom.content_json, "components", << >>)
           packages == Get(sbom.content_json, "packages", << >>)
       IN IF components # << >> THEN Len(components) ELSE Len(packages)

\* A variant that keeps one row per SBOM: a scan takes over the id of the
\* row an earlier scan of the SBOM committed.
completed_scan_Upsert(j, sbom, scan_results, scan_duration) ==
  LET earlier == { r \in ScanResult : r.sbom_id = sbom.id } IN
  [ id |-> IF earlier # {} THEN (CHOOSE r \in earlier : TRUE).id ELSE seq.ScanResult,
    sbom_id |-> sbom.id, status |-> "completed",
    total_components |-> TotalComponents(sbom),
    vulnerable_count |-> scan_results.vulnerable_components_count,
    critical_count |-> Get(scan_results.severity_counts, "CRITICAL", 0),
    high_count |-> Get(scan_results.severity_counts, "HIGH", 0),
    medium_count |-> Get(scan_results.severity_counts, "MEDIUM", 0),
    low_count |-> Get(scan_results.severity_counts, "LOW", 0),
    scan_duration_seconds |-> scan_duration,
    task |-> j, findings |-> Len(scan_results.vulnerabilities) ]

\* ScanResult(status='completed', ...) of lines 144-155
completed_scan(j, sbom, scan_results, scan_duration) ==
  [ id |-> seq.ScanResult, sbom_id |-> sbom.id, status |-> "completed",
    total_components |-> TotalComponents(sbom),
    vulnerable_count |-> scan_results.vulnerable_components_count,
    critical_count |-> Get(scan_results.severity_counts, "CRITICAL", 0),
    high_count |-> Get(scan_results.severity_counts, "HIGH", 0),
    medium_count |-> Get(scan_results.severity_counts, "MEDIUM", 0),
    low_count |-> Get(scan_results.severity_counts, "LOW", 0),
    scan_duration_seconds |-> scan_duration,
    task |-> j, findings |-> Len(scan_results.vulnerabilities) ]

\* Lines 124-158, once trivy_service.scan_sbom has returned scan_results:
\* raise on a failed scan, else build the completed row, add it and flush.
after_scan(j, t0, scan_results, scan_duration) ==
  LET t == [t0 EXCEPT !.scan_results = scan_results, !.scan_duration = scan_duration]
      sbom == t.sbom
  IN IF Get(scan_results, "status", "") # "success"
     THEN \E db_ok \in BOOLEAN :
            handler(j, t, db[j], Get(scan_results, "error", << "Trivy scan failed" >>), db_ok)
     ELSE \E flush_ok \in BOOLEAN :
            IF flush_ok
            THEN LET row == completed_scan(j, sbom, scan_results, scan_duration) IN
                 /\ db' = [db EXCEPT ![j] = Flush(Add(db[j], "ScanResult", row))]
                 /\ seq' = [seq EXCEPT !.ScanResult = @ + 1]
                 /\ tasks' = [tasks EXCEPT ![j] =
                                [t EXCEPT !.pc = "loop", !.idx = 1, !.scan_result_id = row.id]]
                 /\ UNCHANGED << ScanResult, Vulnerability, ScanVulnerability >>
            ELSE \E db_ok \in BOOLEAN :
                   handler(j, t, Failed(db[j]), << "DBAPIError" >>, db_ok)

\* How writing the temporary file and starting the subprocess can go:
\*   launched     the file is written and the subprocess runs
\*   no_tempfile  NamedTemporaryFile raises (no file exists)
\*   dump_fails   json.dump or the close of the with block raises (the file
\*                exists, the inner try/finally has not been entered)
\*   no_trivy     subprocess.run cannot start the command (FileNotFoundError)
StartOutcomes == {"launched", "no_tempfile", "dump_fails", "no_trivy"}

\* The temporary files after scan_sbom's with block and inner try were left
\* because of an exception before the subprocess ran.
FilesAfterStartFailure(outcome, j) ==
  IF outcome = "dump_fails" THEN tempfiles \cup {j}
  ELSE IF outcome = "no_trivy" THEN Unlink(tempfiles \cup {j}, j)
  ELSE tempfiles

\* Lines 93-128 of the task and 99-128 of TrivyService.scan_sbom: look the
\* SBOM up, write it to a temporary file and start the subprocess.
scan_sbom_start(j) ==
  LET t == tasks[j] IN
  /\ t.pc = "start"
  /\ IF ~IsUUID(t.sbom_id)
     THEN /\ Return(j, t, "failed", [status |-> "failed", error |-> << "Invalid SBOM ID format" >>])
          /\ UNCHANGED << SBOM, ScanResult, ScanVulnerability, Vulnerability, seq,
                          trivy, tempfiles, reader, http, matcher >>
     ELSE IF ~\E s \in SBOM : s.id = t.sbom_id
     THEN /\ Return(j, t, "failed", [status |-> "failed", error |-> << "SBOM not found" >>])
          /\ UNCHANGED << SBOM, ScanResult, ScanVulnerability, Vulnerability, seq,
                          trivy, tempfiles, reader, http, matcher >>
     ELSE \E outcome \in StartOutcomes, runtime \in RunTimes :
            LET t1 == [t EXCEPT !.sbom = CHOOSE s \in SBOM : s.id = t.sbom_id] IN
            IF outcome = "launched"
            THEN /\ tempfiles' = tempfiles \cup {j}
                 /\ trivy' = [trivy EXCEPT ![j] =
                                [proc |-> "running", runs |-> 1, runtime |-> runtime]]
                 /\ tasks' = [tasks EXCEPT ![j] = [t1 EXCEPT !.pc = "trivy"]]
                 /\ UNCHANGED << SBOM, ScanResult, ScanVulnerability, Vulnerability,
                                 seq, db, reader, http, matcher >>
            ELSE /\ tempfiles' = FilesAfterStartFailure(outcome, j)
                 /\ trivy' = [trivy EXCEPT ![j].runs = IF outcome = "no_trivy" THEN 1 ELSE 0]
                 /\ after_scan(j, t1, FailedResult(ErrorMessage(outcome)), 0)
                 /\ UNCHANGED << SBOM, reader, http, matcher >>

\* The subprocess exits before the timeout: subprocess.run returns, the
\* finally clause removes the file and the task goes on with the result.
subprocess_exits(j, returncode, stdout, stderr) ==
  /\ tasks[j].pc = "trivy"
  /\ ExitsOnItsOwn(trivy[j].runtime)
  /\ ~TimesOut(trivy[j].runtime)
  /\ trivy' = [trivy EXCEPT ![j].proc = "exited"]
  /\ tempfiles' = Unlink(tempfiles, j)
  /\ after_scan(j, tasks[j], CompletedResult(returncode, stdout, stderr), trivy[j].runtime)
  /\ UNCHANGED << SBOM, reader, http, matcher >>

\* The timeout expires first: subprocess.run kills the child and raises
\* TimeoutExpired, the finally clause removes the file.
timeout_expired(j) ==
  /\ tasks[j].pc = "trivy"
  /\ TimesOut(trivy[j].runtime)
  /\ trivy' = [trivy EXCEPT ![j].proc = "killed"]
  /\ tempfiles' = Unlink(tempfiles, j)
  /\ after_scan(j, tasks[j], FailedResult(TimeoutMessage), ScanTimeoutSeconds)
  /\ UNCHANGED << SBOM, reader, http, matcher >>

\* datetime.fromisoformat(date.replace('Z', '+00:00')) raises ValueError.
FromIsoFormatRaises(date) == date = BadDate

\* Vulnerability(...) of lines 168-177; the id is set by the flush.
new_vulnerability(vuln_data) ==
  [ cve_id |-> vuln_data.cve_id, severity |-> vuln_data.severity ]

\* ScanVulnerability(...) of lines 182-188.  The row's own serial id is left
\* out: n, the place of the finding in the report, tells the rows of a scan
\* apart.
scan_vuln(scan_result_id, vulnerability_id, vuln_data, n) ==
  [ scan_result_id |-> scan_result_id, vulnerability_id |-> vulnerability_id,
    component_name |-> vuln_data.component_name,
    component_version |-> vuln_data.component_version,
    matched_cpe |-> Get(vuln_data, "target", ""), n |-> n ]

\* db.query(Vulnerability).filter(cve_id == ...): the committed rows and the
\* session's own.
QueryVulnerability(s, cve_id) ==
  { v \in Vulnerability \cup Own(s, "Vulnerability") : v.cve_id = cve_id }

\* One pass of the for loop up to db.add(vulnerability) (lines 161-178) or,
\* when the CVE is already stored, to db.add(scan_vuln) (line 189).
scan_sbom_loop(j) ==
  LET t == tasks[j]
      s == db[j]
      vuln_data == t.scan_results.vulnerabilities[t.idx]
      found == QueryVulnerability(s, vuln_data.cve_id)
  IN
  /\ t.pc = "loop"
  /\ t.idx <= Len(t.scan_results.vulnerabilities)
  /\ IF found # {}
     THEN LET vulnerability == CHOOSE v \in found : TRUE IN
          /\ db' = [db EXCEPT ![j] =
                      Add(s, "ScanVulnerability",
                          scan_vuln(t.scan_result_id, vulnerability.id, vuln_data, t.idx))]
          /\ tasks' = [tasks EXCEPT ![j].idx = @ + 1]
          /\ UNCHANGED << ScanResult, Vulnerability, ScanVulnerability, seq >>
     ELSE IF FromIsoFormatRaises(Get(vuln_data, "published_date", ""))
     THEN \E db_ok \in BOOLEAN :
            handler(j, t, s, << "Invalid isoformat string: ", vuln_data.published_date >>, db_ok)
     ELSE /\ db' = [db EXCEPT ![j] = Add(s, "Vulnerability", new_vulnerability(vuln_data))]
          /\ tasks' = [tasks EXCEPT ![j].pc = "flush"]
          /\ UNCHANGED << ScanResult, Vulnerability, ScanVulnerability, seq >>
  /\ UNCHANGED << SBOM, trivy, tempfiles, reader, http, matcher >>

\* The CVE ids of the Vulnerability rows a session has added and not flushed.
Adding(j) == { v.cve_id : v \in db[j].new.Vulnerability }

\* No unique index: an INSERT waits for nobody.
WaitsFor_Nobody(j) == {}

\* The tasks whose open transaction holds an uncommitted row with a cve_id
\* that task j is inserting: the unique index makes j's INSERT wait for them.
WaitsFor(j) ==
  { k \in JobIds \ {j} :
      \E v \in Own(db[k], "Vulnerability") : v.cve_id \in Adding(j) }

RECURSIVE WaitClosure(_, _)
WaitClosure(S, n) ==
  IF n = 0 THEN S ELSE WaitClosure(S \cup UNION { WaitsFor(k) : k \in S }, n - 1)

\* Task j is on a cycle of waiting transactions.
Deadlocked(j) == j \in WaitClosure(WaitsFor(j), MaxJobs)

\* db.flush() of line 179 and db.add(scan_vuln) of line 189.  The INSERT
\* waits while another open transaction holds the cve_id; it fails on a
\* committed row with the cve_id (unique index) or on any database error.
scan_sbom_flush(j) ==
  LET t == tasks[j]
      s == db[j]
      vuln_data == t.scan_results.vulnerabilities[t.idx]
      duplicate == \E v \in Vulnerability : v.cve_id \in Adding(j)
      vulnerability == [id |-> seq.Vulnerability] @@ new_vulnerability(vuln_data)
      flushed == Flush([s EXCEPT !.new.Vulnerability = {vulnerability}])
  IN
  /\ t.pc = "flush"
  /\ WaitsFor(j) = {}
  /\ \E flush_ok \in BOOLEAN :
       IF flush_ok /\ ~duplicate
       THEN /\ db' = [db EXCEPT ![j] =
                        Add(flushed, "ScanVulnerability",
                            scan_vuln(t.scan_result_id, vulnerability.id, vuln_data, t.idx))]
            /\ seq' = [seq EXCEPT !.Vulnerability = @ + 1]
            /\ tasks' = [tasks EXCEPT ![j].pc = "loop", ![j].idx = @ + 1]
            /\ UNCHANGED << ScanResult, Vulnerability, ScanVulnerability >>
       ELSE \E db_ok \in BOOLEAN :
              handler(j, t, Failed(s),
                      IF duplicate THEN << "IntegrityError" >> ELSE << "DBAPIError" >>, db_ok)
  /\ UNCHANGED << SBOM, trivy, tempfiles, reader, http, matcher >>

\* PostgreSQL's deadlock detector aborts a transaction of a waiting cycle:
\* the flush of line 179 raises.
deadlock_detected(j) ==
  /\ tasks[j].pc = "flush"
  /\ Deadlocked(j)
  /\ \E db_ok \in BOOLEAN :
       handler(j, tasks[j], Failed(db[j]), << "DeadlockDetected" >>, db_ok)
  /\ UNCHANGED << SBOM, trivy, tempfiles, reader, http, matcher >>

\* db.commit() of line 191 after the loop: flush what was added, COMMIT.
scan_sbom_commit(j) ==
  LET t == tasks[j]
      rows == Flush(db[j]).flushed
  IN
  /\ t.pc = "loop"
  /\ t.idx > Len(t.scan_results.vulnerabilities)
  /\ \E commit_ok \in BOOLEAN :
       IF commit_ok
       THEN /\ ScanResult' = ScanResult \cup rows.ScanResult
            /\ Vulnerability' = Vulnerability \cup rows.Vulnerability
            /\ ScanVulnerability' = ScanVulnerability \cup rows.ScanVulnerability
            /\ db' = [db EXCEPT ![j] = Ended(db[j])]
            /\ tasks' = [tasks EXCEPT ![j].pc = "committed",
                                      ![j].wrote = @ \cup { r.status : r \in rows.ScanResult }]
            /\ UNCHANGED seq
       ELSE \E db_ok \in BOOLEAN :
              handler(j, t, Failed(db[j]), << "DBAPIError" >>, db_ok)
  /\ UNCHANGED << SBOM, trivy, tempfiles, reader, http, matcher >>

\* The payload of the return of lines 196-205.
success_payload(t) ==
  [ status |-> "success", sbom_id |-> t.sbom_id, scan_result_id |-> t.scan_result_id,
    total_components |-> TotalComponents(t.sbom),
    vulnerable_count |-> t.scan_results.vulnerable_components_count,
    total_vulnerabilities |-> t.scan_results.total_vulnerabilities,
    severity_counts |-> t.scan_results.severity_counts,
    scan_duration_seconds |-> t.scan_duration ]

\* Lines 193-205: scan_result.id is read after the commit has expired the
\* object, so the row is selected again; that raises when the row is gone
\* (ObjectDeletedError) or the database fails.
scan_sbom_return(j) ==
  LET t == tasks[j]
      gone == ~\E r \in ScanResult : r.id = t.scan_result_id
  IN
  /\ t.pc = "committed"
  /\ \E refresh_ok \in BOOLEAN :
       IF refresh_ok /\ ~gone
       THEN /\ Return(j, t, "completed", success_payload(t))
            /\ UNCHANGED << ScanResult, Vulnerability, ScanVulnerability, seq >>
       ELSE \E db_ok \in BOOLEAN :
              handler(j, t, db[j],
                      IF gone THEN << "ObjectDeletedError" >> ELSE << "DBAPIError" >>, db_ok)
  /\ UNCHANGED << SBOM, trivy, tempfiles, reader, http, matcher >>

\* ------------------------------------------------------ specification
Next ==
  \/ \E doc \in Docs, filename \in Filenames :
       upload_sbom_file(doc, filename) /\ UNCHANGED http
  \/ \E sbom_id \in 1..MaxSboms : rescan_sbom(sbom_id) /\ UNCHANGED http
  \/ \E sbom_id \in 1..MaxSboms : delete_sbom(sbom_id)
  \/ \E j \in JobIds : worker_dequeue(j)
  \/ \E j \in JobIds : scan_sbom_start(j)
  \/ \E j \in JobIds, returncode \in ExitCodes, stdout \in Stdouts, stderr \in Stderrs :
       subprocess_exits(j, returncode, stdout, stderr)
  \/ \E j \in JobIds : timeout_expired(j)
  \/ \E j \in JobIds : scan_sbom_loop(j)
  \/ \E j \in JobIds : scan_sbom_flush(j)
  \/ \E j \in JobIds : deadlock_detected(j)
  \/ \E j \in JobIds : scan_sbom_commit(j)
  \/ \E j \in JobIds : scan_sbom_return(j)

Spec == Init /\ [][Next]_vars

\* ------------------------------------------------------------ readers
\* order_by(ScanResult.scan_date.desc()).first(): a row is built (scan_date)
\* and flushed (id) in one step of the model, so the latest is the highest id.
Latest(rows) == CHOOSE r \in rows : \A q \in rows : q.id <= r.id

\* GET /api/v1/scan/{sbom_id}/result, its first query (lines 30-36).
get_scan_result(sbom_id) ==
  LET rows == { r \in ScanResult : r.sbom_id = sbom_id } IN
  /\ reader.pc = "idle"
  /\ reader' = IF rows = {}
               THEN [Idle EXCEPT !.response = [status_code |-> 404]]
               ELSE [pc |-> "join", scan_result |-> Latest(rows), response |-> NoResponse]
  /\ UNCHANGED << SBOM, ScanResult, ScanVulnerability, Vulnerability, seq, tasks, db,
                  trivy, tempfiles, http, matcher >>

\* Its second query, the join (lines 39-44), and the response (lines 46-78).
get_scan_result_join ==
  LET scan_result == reader.scan_result
      vulnerabilities ==
        { [ cve_id |-> v.cve_id, severity |-> v.severity,
            component_name |-> sv.component_name,
            component_version |-> sv.component_version, n |-> sv.n ] :
            << sv, v >> \in { p \in ScanVulnerability \X Vulnerability :
                                /\ p[1].vulnerability_id = p[2].id
                                /\ p[1].scan_result_id = scan_result.id } }
  IN
  /\ reader.pc = "join"
  /\ reader' = [Idle EXCEPT !.response =
                  [ status_code |-> 200, scan_id |-> scan_result.id,
                    sbom_id |-> scan_result.sbom_id, status |-> scan_result.status,
                    total_components |-> scan_result.total_components,
                    vulnerable_count |-> scan_result.vulnerable_count,
                    findings |-> scan_result.findings,
                    vulnerabilities |-> vulnerabilities ]]
  /\ UNCHANGED << SBOM, ScanResult, ScanVulnerability, Vulnerability, seq, tasks, db,
                  trivy, tempfiles, http, matcher >>

\* The system with a reader beside the tasks.
ReadNext ==
  \/ Next
  \/ \E sbom_id \in 1..MaxSboms : get_scan_result(sbom_id)
  \/ get_scan_result_join

ReadSpec == Init /\ [][ReadNext]_vars

\* The steps of task j.
TaskStep(j) ==
  \/ worker_dequeue(j)
  \/ scan_sbom_start(j)
  \/ \E returncode \in ExitCodes, stdout \in Stdouts, stderr \in Stderrs :
       subprocess_exits(j, returncode, stdout, stderr)
  \/ timeout_expired(j)
  \/ scan_sbom_loop(j)
  \/ scan_sbom_flush(j)
  \/ deadlock_detected(j)
  \/ scan_sbom_commit(j)
  \/ scan_sbom_return(j)

\* Fair scheduling: a worker takes every queued task and runs it on; the
\* subprocess exits or the timeout of subprocess.run expires; the database
\* answers every statement that is not waiting for a lock and ends every
\* deadlock.
FairSpec == Spec /\ \A j \in JobIds : WF_vars(TaskStep(j))

\* -------------------------------------------------------- the matcher
\* VulnerabilityScanner (services/scanner.py).  A Python str is the sequence
\* of its characters.

\* Longest component name that is normalized.
MaxNameLen == 4

\* The characters of those names: a lowercase and an uppercase letter, a
\* digit, and three that are not alphanumeric.
NameChars == { "a", "B", "7", "-", "_", "." }

Names == UNION { [1..n -> NameChars] : n \in 0..MaxNameLen }

\* str.lower() on the ASCII letters.
ToLower ==
  [ A |-> "a", B |-> "b", C |-> "c", D |-> "d", E |-> "e", F |-> "f", G |-> "g",
    H |-> "h", I |-> "i", J |-> "j", K |-> "k", L |-> "l", M |-> "m", N |-> "n",
    O |-> "o", P |-> "p", Q |-> "q", R |-> "r", S |-> "s", T |-> "t", U |-> "u",
    V |-> "v", W |-> "w", X |-> "x", Y |-> "y", Z |-> "z" ]

lower(str) ==
  [ i \in 1..Len(str) |-> IF str[i] \in DOMAIN ToLower THEN ToLower[str[i]] ELSE str[i] ]

\* The characters the class [a-z0-9] accepts.
AlphaNum ==
  { "a", "b", "c", "d", "e", "f", "g", "h", "i", "j", "k", "l",
    "m", "n", "o", "p", "q", "r", "s", "t", "u", "v", "w", "x",
    "y", "z", "0", "1", "2", "3", "4", "5", "6", "7", "8", "9" }

\* re.sub(r'[^a-z0-9]', '_', normalized)
SubNonAlphaNum(str) ==
  [ i \in 1..Len(str) |-> IF str[i] \in AlphaNum THEN str[i] ELSE "_" ]

\* A variant that leaves runs of underscores as they are.
CollapseUnderscores_Skip(str) == str

\* re.sub(r'_+', '_', normalized)
RECURSIVE CollapseUnderscores(_)
CollapseUnderscores(str) ==
  IF Len(str) < 2 THEN str
  ELSE IF str[1] = "_" /\ str[2] = "_" THEN CollapseUnderscores(Tail(str))
  ELSE << str[1] >> \o CollapseUnderscores(Tail(str))

\* str.strip(c)
RECURSIVE Strip(_, _)
Strip(str, c) ==
  IF str = << >> THEN str
  ELSE IF str[1] = c THEN Strip(Tail(str), c)
  ELSE IF str[Len(str)] = c THEN Strip(SubSeq(str, 1, Len(str) - 1), c)
  ELSE str

_normalize_component_name(name) ==
  Strip(CollapseUnderscores(SubNonAlphaNum(lower(name))), "_")

\* ----------------------------------------------------- version ranges
\* Optional[str]: the value None.
None == << "None" >>

\* The truth value Python gives a bound: None and '' are false.
Truthy(bound) == bound # None /\ bound # << >>

DigitValue ==
  "0" :> 0 @@ "1" :> 1 @@ "2" :> 2 @@ "3" :> 3 @@ "4" :> 4 @@
  "5" :> 5 @@ "6" :> 6 @@ "7" :> 7 @@ "8" :> 8 @@ "9" :> 9

\* int(str) of a string of digits.
RECURSIVE int(_)
int(str) ==
  IF str = << >> THEN 0
  ELSE 10 * int(SubSeq(str, 1, Len(str) - 1)) + DigitValue[str[Len(str)]]

\* str.split(sep)
RECURSIVE split(_, _)
split(str, sep) ==
  IF \A i \in 1..Len(str) : str[i] # sep THEN << str >>
  ELSE LET i == CHOOSE i \in 1..Len(str) :
                  str[i] = sep /\ \A k \in 1..(i - 1) : str[k] # sep
       IN << SubSeq(str, 1, i - 1) >> \o split(SubSeq(str, i + 1, Len(str)), sep)

\* pkg_version.parse raises InvalidVersion (packaging 22 and later).  Of the
\* strings over the digits, the dot and the letter x, the versions are the
\* dotted runs of digits: N(.N)*.
InvalidVersion(version) ==
  LET segments == split(version, ".")
  IN \E k \in 1..Len(segments) :
       \/ segments[k] = << >>
       \/ \E i \in 1..Len(segments[k]) : segments[k][i] \notin DOMAIN DigitValue

\* The release segment's trailing zeros do not count: 1.0 == 1.0.0.
RECURSIVE StripTrailingZeros(_)
StripTrailingZeros(release) ==
  IF release # << >> /\ release[Len(release)] = 0
  THEN StripTrailingZeros(SubSeq(release, 1, Len(release) - 1))
  ELSE release

\* pkg_version.parse(version): the key two versions are compared by, the
\* tuple of the numbers of the release.
parse(version) ==
  LET segments == split(version, ".")
  IN StripTrailingZeros([ k \in 1..Len(segments) |-> int(segments[k]) ])

\* a < b for two tuples of numbers, as Python compares them.
RECURSIVE lt(_, _)
lt(a, b) ==
  IF b = << >> THEN FALSE
  ELSE IF a = << >> THEN TRUE
  ELSE IF a[1] # b[1] THEN a[1] < b[1]
  ELSE lt(Tail(a), Tail(b))

\* Variants of the except clause: one that takes any bound for the raw
\* version, one that always matches.
except_Exception_AnyBound(component_version, version_start_including, version_start_excluding, version_end_including, version_end_excluding) ==
  component_version \in ( { version_start_including, version_start_excluding,
                           version_end_including, version_end_excluding } \ { None, << >> } )

except_Exception_Match(component_version, version_start_including, version_start_excluding, version_end_including, version_end_excluding) ==
  TRUE

\* The except clause of _check_version_range.
except_Exception(component_version, version_start_including, version_start_excluding, version_end_including, version_end_excluding) ==
  Truthy(version_start_including) /\ component_version = version_start_including

\* A variant whose versionEndExcluding includes the bound.
_check_version_range_EndIncluded(component_version, version_start_including, version_start_excluding, version_end_including, version_end_excluding) ==
  /\ ~ InvalidVersion(component_version)
  /\ \A bound \in { version_start_including, version_start_excluding,
                    version_end_including, version_end_excluding } :
       Truthy(bound) => ~ InvalidVersion(bound)
  /\ Truthy(version_start_including) =>
       ~ lt(parse(component_version), parse(version_start_including))
  /\ Truthy(version_start_excluding) =>
       lt(parse(version_start_excluding), parse(component_version))
  /\ Truthy(version_end_including) =>
       ~ lt(parse(version_end_including), parse(component_version))
  /\ Truthy(version_end_excluding) =>
       ~ lt(parse(version_end_excluding), parse(component_version))

\* The statements of the try block in their order: a parse that raises ends
\* in the except clause, a bound that does not hold returns False.
_check_version_range(component_version, version_start_including, version_start_excluding, version_end_including, version_end_excluding) ==
  LET failed == except_Exception(component_version, version_start_including,
                  version_start_excluding, version_end_including, version_end_excluding)
      comp_ver == parse(component_version)
  IN IF InvalidVersion(component_version) THEN failed
     ELSE IF Truthy(version_start_including) /\ InvalidVersion(version_start_including)
       THEN failed
     ELSE IF Truthy(version_start_including) /\ lt(comp_ver, parse(version_start_including))
       THEN FALSE
     ELSE IF Truthy(version_start_excluding) /\ InvalidVersion(version_start_excluding)
       THEN failed
     ELSE IF Truthy(version_start_excluding)
             /\ ~ lt(parse(version_start_excluding), comp_ver)
       THEN FALSE
     ELSE IF Truthy(version_end_including) /\ InvalidVersion(version_end_including)
       THEN failed
     ELSE IF Truthy(version_end_including) /\ lt(parse(version_end_including), comp_ver)
       THEN FALSE
     ELSE IF Truthy(version_end_excluding) /\ InvalidVersion(version_end_excluding)
       THEN failed
     ELSE IF Truthy(version_end_excluding)
             /\ ~ lt(comp_ver, parse(version_end_excluding))
       THEN FALSE
     ELSE TRUE

\* The component versions and the bounds the function is evaluated on; x
\* and the empty string are not versions.
ComponentVersions ==
  { << "0", ".", "9" >>,
    << "1", ".", "0" >>,
    << "1", ".", "0", ".", "0" >>,
    << "1", ".", "9", ".", "0" >>,
    << "1", ".", "9", ".", "9" >>,
    << "1", ".", "1", "0", ".", "0" >>,
    << "2", ".", "0" >>,
    << "x" >>,
    << >> }

Bounds ==
  { None,
    << >>,
    << "1", ".", "0" >>,
    << "1", ".", "9", ".", "0" >>,
    << "1", ".", "1", "0", ".", "0" >>,
    << "2", ".", "0" >>,
    << "x" >> }

\* -------------------------------------------------------- CPE products
\* a in b, for two strings
Substring(a, b) ==
  \E i \in 0..(Len(b) - Len(a)) : SubSeq(b, i + 1, i + Len(a)) = a

\* A variant that compares the product only.
_match_cpe_product_ProductOnly(cpe, component_name) ==
  LET parts == split(cpe, ":")
  IN /\ Len(parts) >= 5
     /\ \/ Substring(lower(parts[5]), component_name)
        \/ Substring(component_name, lower(parts[5]))

\* parts[3] and parts[4] of the code are the fourth and the fifth field.
_match_cpe_product(cpe, component_name) ==
  LET parts == split(cpe, ":")
  IN IF Len(parts) < 5 THEN FALSE
     ELSE LET product == lower(parts[5])
              vendor == lower(parts[4])
          IN \/ Substring(product, component_name)
             \/ Substring(component_name, product)
             \/ /\ vendor # << >>
                /\ \/ Substring(vendor, component_name)
                   \/ Substring(vendor \o << "_" >> \o product, component_name)

\* The CPE URIs and the normalized names the function is evaluated on.
Cpes ==
  { << "c", "p", "e", ":", "2", ".", "3", ":", "a", ":", "a", "p", "a", "c", "h", "e", ":", "l", "o", "g", "4", "j", ":", "*" >>,
    << "c", "p", "e", ":", "2", ".", "3", ":", "a", ":", "A", "p", "a", "c", "h", "e", ":", "L", "o", "g", "4", "j", ":", "*" >>,
    << "c", "p", "e", ":", "2", ".", "3", ":", "a", ":", "a", "p", "a", "c", "h", "e", ":", "z", "l", "i", "b" >>,
    << "c", "p", "e", ":", "2", ".", "3", ":", "a", ":", ":", "z", "l", "i", "b", ":", "*" >>,
    << "c", "p", "e", ":", "2", ".", "3", ":", "a", ":", ":", "L", "o", "g", "4", "j" >>,
    << "c", "p", "e", ":", "2", ".", "3", ":", "a", ":", "g", "n", "u", ":" >>,
    << "c", "p", "e", ":", "2", ".", "3", ":", "a", ":", "g", "n", "u", ":", "c", "o", "r", "e", ":", "1", ".", "0" >>,
    << "c", "p", "e", ":", "2", ".", "3", ":", "a", ":", "G", "N", "U", ":", "z", "l", "i", "b", ":", "*" >>,
    << "c", "p", "e", ":", "2", ".", "3", ":", "a", ":", "a", "p", "a", "c", "h", "e" >>,
    << "c", "p", "e", ":", "2", ".", "3", ":", "a", ":", "z", "l", "i", "b" >>,
    << >>,
    << ":", ":", ":", ":" >>,
    << "c", "p", "e", ":", "2", ".", "3", ":", "a", ":", "j", ":", "l", "o", "g", "4", "j", "_", "c", "o", "r", "e", "_", "a", "p", "i", ":", "*" >>,
    << "c", "p", "e", ":", "2", ".", "3", ":", "a", ":", "*", ":", "*", ":", "*" >> }

NormalizedNames ==
  { << "l", "o", "g", "4", "j", "_", "c", "o", "r", "e" >>,
    << "l", "o", "g", "4", "j" >>,
    << "z", "l", "i", "b" >>,
    << "a", "p", "a", "c", "h", "e", "_", "l", "o", "g", "4", "j" >>,
    << "g", "n", "u", "_", "z", "l", "i", "b" >>,
    << "j" >>,
    << "o", "r", "g", "_", "a", "p", "a", "c", "h", "e", "_", "c", "o", "m", "m", "o", "n", "s" >>,
    << >> }

\* ------------------------------------------------------------ matching
\* The value None of the column cpe_match, which otherwise holds a list of
\* criteria.
NoCpeMatch == << [ none |-> TRUE ] >>

\* A variant that asks every criterion to pass.
_is_vulnerable_AllCriteria(component, vulnerability) ==
  /\ vulnerability.cpe_match # NoCpeMatch
  /\ \A i \in 1..Len(vulnerability.cpe_match) :
       LET cpe_match == vulnerability.cpe_match[i]
       IN /\ _match_cpe_product(Get(cpe_match, "criteria", << >>),
                                _normalize_component_name(component.name))
          /\ _check_version_range(component.version,
               Get(cpe_match, "versionStartIncluding", None),
               Get(cpe_match, "versionStartExcluding", None),
               Get(cpe_match, "versionEndIncluding", None),
               Get(cpe_match, "versionEndExcluding", None))

\* cpe_match is the list the JSONB column holds, or None.  The loop returns
\* True at the first criterion that passes both checks; on criteria that are
\* strings neither check raises, so it returns True exactly when there is
\* such a criterion.
_is_vulnerable(component, vulnerability) ==
  IF vulnerability.cpe_match = NoCpeMatch \/ vulnerability.cpe_match = << >> THEN FALSE
  ELSE LET cpe_matches == vulnerability.cpe_match
           normalized_name == _normalize_component_name(component.name)
       IN \E i \in 1..Len(cpe_matches) :
            LET cpe_match == cpe_matches[i]
                criteria == Get(cpe_match, "criteria", << >>)
            IN /\ _match_cpe_product(criteria, normalized_name)
               /\ _check_version_range(component.version,
                    Get(cpe_match, "versionStartIncluding", None),
                    Get(cpe_match, "versionStartExcluding", None),
                    Get(cpe_match, "versionEndIncluding", None),
                    Get(cpe_match, "versionEndExcluding", None))

\* rows are the rows of table vulnerabilities in the order the query returns
\* them; candidates those whose cpe_match is not NULL.
_find_vulnerabilities_for_component(component, rows) ==
  LET is_candidate(vuln) == vuln.cpe_match # NoCpeMatch
      candidates == SelectSeq(rows, is_candidate)
      is_vulnerable(vuln) == _is_vulnerable(component, vuln)
  IN SelectSeq(candidates, is_vulnerable)

\* The components and the vulnerabilities the functions are evaluated on:
\* log4j-core 2.14.1 and 2.15.0, Zlib 1.0 and a zlib of version x; a
\* vulnerability of log4j below 2.15.0, one with two criteria for log4j, both
\* of which 2.14.1 passes, one of zlib from 1.0 or of log4j from 2.15.0, one
\* whose criterion has no CPE URI, one with an empty list and one with none.
\* The second has no severity, the third the severity NONE of CVSS 3.
Components ==
  { [ name |-> << "l", "o", "g", "4", "j", "-", "c", "o", "r", "e" >>, version |-> << "2", ".", "1", "4", ".", "1" >> ],
    [ name |-> << "l", "o", "g", "4", "j", "-", "c", "o", "r", "e" >>, version |-> << "2", ".", "1", "5", ".", "0" >> ],
    [ name |-> << "Z", "l", "i", "b" >>, version |-> << "1", ".", "0" >> ],
    [ name |-> << "z", "l", "i", "b" >>, version |-> << "x" >> ] }

Vulnerabilities ==
  { [ id |-> 1, severity |-> "HIGH", cpe_match |->
        << [ criteria |-> << "c", "p", "e", ":", "2", ".", "3", ":", "a", ":", "a", "p", "a", "c", "h", "e", ":", "l", "o", "g", "4", "j", ":", "*" >>, versionEndExcluding |-> << "2", ".", "1", "5", ".", "0" >> ] >> ],
    [ id |-> 2, cpe_match |->
        << [ criteria |-> << "c", "p", "e", ":", "2", ".", "3", ":", "a", ":", "a", "p", "a", "c", "h", "e", ":", "l", "o", "g", "4", "j", ":", "*" >>, versionEndExcluding |-> << "2", ".", "1", "5", ".", "0" >> ],
           [ criteria |-> << "c", "p", "e", ":", "2", ".", "3", ":", "a", ":", "a", "p", "a", "c", "h", "e", ":", "l", "o", "g", "4", "j", ":", "*" >>, versionStartIncluding |-> << "2", ".", "0" >>,
             versionEndIncluding |-> << "2", ".", "1", "4", ".", "1" >> ] >> ],
    [ id |-> 3, severity |-> "NONE", cpe_match |->
        << [ criteria |-> << "c", "p", "e", ":", "2", ".", "3", ":", "a", ":", "g", "n", "u", ":", "z", "l", "i", "b", ":", "*" >>, versionStartIncluding |-> << "1", ".", "0" >> ],
           [ criteria |-> << "c", "p", "e", ":", "2", ".", "3", ":", "a", ":", "a", "p", "a", "c", "h", "e", ":", "l", "o", "g", "4", "j", ":", "*" >>, versionStartIncluding |-> << "2", ".", "1", "5", ".", "0" >> ] >> ],
    [ id |-> 4, severity |-> "LOW", cpe_match |-> << [ versionEndExcluding |-> << "2", ".", "1", "5", ".", "0" >> ] >> ],
    [ id |-> 5, severity |-> "LOW", cpe_match |-> << >> ],
    [ id |-> 6, severity |-> "CRITICAL", cpe_match |-> NoCpeMatch ] }

\* Most rows of table vulnerabilities in an evaluation.
MaxRows == 3

\* The orders the query can return rows in: no row twice.
Rows ==
  UNION { { rows \in [1..n -> Vulnerabilities] :
              \A i, k \in 1..n : rows[i] = rows[k] => i = k } : n \in 0..MaxRows }

\* Most components in a scan.
MaxComponents == 2

\* _is_vulnerable raises AttributeError: the loop reaches a criterion whose
\* 'criteria' is None (the ingester stores match.get('criteria')), and
\* None.split(':') in _match_cpe_product raises.
_is_vulnerable_Raises(component, vulnerability) ==
  /\ vulnerability.cpe_match \notin { NoCpeMatch, << >> }
  /\ \E i \in 1..Len(vulnerability.cpe_match) :
       /\ Get(vulnerability.cpe_match[i], "criteria", << >>) = None
       /\ ~ _is_vulnerable(component,
              [ cpe_match |-> SubSeq(vulnerability.cpe_match, 1, i - 1) ])

\* scan_components with rows the rows of table vulnerabilities in the order
\* the query returns them.  What _is_vulnerable raises leaves the function:
\* nothing between the loop and the caller catches it.
scan_components(components, rows) ==
  LET found(i) == _find_vulnerabilities_for_component(components[i], rows)
      RECURSIVE vulnerabilities_found(_)
      vulnerabilities_found(n) ==
        IF n = 0 THEN << >> ELSE vulnerabilities_found(n - 1) \o found(n)
      vulns == vulnerabilities_found(Len(components))
      \* severity = vuln.severity or 'UNKNOWN'
      severity(vuln) ==
        IF "severity" \in DOMAIN vuln /\ vuln.severity # "" THEN vuln.severity
        ELSE "UNKNOWN"
  IN IF \E i \in 1..Len(components), k \in 1..Len(rows) :
          _is_vulnerable_Raises(components[i], rows[k])
     THEN [ raised |-> "AttributeError" ]
     ELSE [ total_components |-> Len(components),
            vulnerable_components |->
              SelectSeq([ i \in 1..Len(components) |->
                           [ component |-> components[i], vulnerabilities |-> found(i) ] ],
                        LAMBDA c : c.vulnerabilities # << >>),
            vulnerabilities_found |-> vulns,
            severity_counts |->
              [ b \in SeverityBuckets \cup { severity(vulns[n]) : n \in 1..Len(vulns) } |->
                  Cardinality({ n \in 1..Len(vulns) : severity(vulns[n]) = b }) ] ]

\* ------------------------------------------------- matcher evaluations
\* The calls of the matcher's functions that are evaluated: the function
\* and its arguments.
NormalizeCalls ==
  { [op |-> "_normalize_component_name", pc |-> "call", name |-> name] : name \in Names }

VersionRangeCalls ==
  { [ op |-> "_check_version_range", pc |-> "call", component_version |-> v,
      version_start_including |-> si, version_start_excluding |-> se,
      version_end_including |-> ei, version_end_excluding |-> ee ] :
      v \in ComponentVersions, si \in Bounds, se \in Bounds, ei \in Bounds, ee \in Bounds }

MatchCpeCalls ==
  { [ op |-> "_match_cpe_product", pc |-> "call", cpe |-> cpe, component_name |-> n ] :
      cpe \in Cpes, n \in NormalizedNames }

IsVulnerableCalls ==
  { [ op |-> "_is_vulnerable", pc |-> "call", component |-> component,
      vulnerability |-> vulnerability ] :
      component \in Components, vulnerability \in Vulnerabilities }

FindCalls ==
  { [ op |-> "_find_vulnerabilities_for_component", pc |-> "call",
      component |-> component, rows |-> rows ] :
      component \in Components, rows \in Rows }

\* TrivyService.check_trivy_installed: `trivy --version` exits with 0.  A
\* run of the trivy command ends with a return code or by raising.
check_trivy_installed(run) == "returncode" \in DOMAIN run /\ run.returncode = 0

\* TrivyService.update_database; the timestamps and the cache directory are
\* left out of the dictionaries.
update_database(run) ==
  IF "raised" \in DOMAIN run
  THEN [ status |-> "failed",
         error |-> IF run.raised = "TimeoutExpired"
                   THEN << "Trivy DB update timed out" >>
                   ELSE << "Trivy DB update error: ", run.raised >> ]
  ELSE IF run.returncode = 0
  THEN [ status |-> "success", message |-> "Database updated successfully" ]
  ELSE [ status |-> "failed", error |-> << "Trivy DB update failed: ", "stderr" >> ]

\* The task update_trivy_db, given how the two subprocesses end.  Neither
\* callee raises, so the task's except clause is never entered.
update_trivy_db(version_run, download_run) ==
  IF ~check_trivy_installed(version_run)
  THEN [ status |-> "failed", error |-> << "Trivy is not installed" >> ]
  ELSE [ status |-> "success", stats |-> update_database(download_run) ]

\* ---------------------------------------------------------- the parser
\* The bytes of an upload are given by what the decoders make of them: utf8
\* says that content.decode('utf-8') succeeds, syntax is "json" when
\* json.loads accepts the text (data is the value it returns) and "xml" when
\* ET.fromstring does (root is the root element).  A JSON value is
\* [type, value]: a dict is a record, a list a sequence of strings, a str a
\* sequence of characters.  In a dict, [null |-> TRUE] stands for null and
\* [str |-> ...] for a string where the code expects a dict.

\* A variant that takes a document without components for an error.
CycloneDXParser_parse_json_NonEmpty(data) ==
  IF Get(data, "components", << >>) = << >>
  THEN [ raised |-> "ValueError" ]
  ELSE [ format |-> "cyclonedx", version |-> Get(data, "specVersion", "unknown"),
         components |-> data.components, raw_data |-> data ]

\* CycloneDXParser.parse_json.  comp.get and metadata.get raise
\* AttributeError on what is not a dict.  Absent purl: no purl field.
CycloneDXParser_parse_json(data) ==
  LET comps == Get(data, "components", << >>)
      metadata == Get(data, "metadata", << >>)
      Component(comp) ==
        [ f \in {"name", "version", "component_type"} \cup (DOMAIN comp \cap {"purl"}) |->
            IF f = "name" THEN Get(comp, "name", "unknown")
            ELSE IF f = "version" THEN Get(comp, "version", "unknown")
            ELSE IF f = "purl" THEN comp.purl
            ELSE Get(comp, "type", "library") ]
  IN IF \E i \in 1..Len(comps) : "str" \in DOMAIN comps[i]
     THEN [ raised |-> "AttributeError" ]
     ELSE IF "null" \in DOMAIN metadata
     THEN [ raised |-> "AttributeError" ]
     ELSE [ format |-> "cyclonedx", version |-> Get(data, "specVersion", "unknown"),
            components |-> [ i \in 1..Len(comps) |-> Component(comps[i]) ],
            raw_data |-> data ]

\* SPDXParser.parse_json.  pkg.get raises AttributeError on what is not a
\* dict.
SPDXParser_parse_json(data) ==
  LET pkgs == Get(data, "packages", << >>) IN
  IF \E i \in 1..Len(pkgs) : "str" \in DOMAIN pkgs[i]
  THEN [ raised |-> "AttributeError" ]
  ELSE [ format |-> "spdx", version |-> Get(data, "spdxVersion", "unknown"),
         components |-> [ i \in 1..Len(pkgs) |->
                            [ name |-> Get(pkgs[i], "name", "unknown"),
                              version |-> Get(pkgs[i], "versionInfo", "unknown"),
                              component_type |-> "library" ] ],
         raw_data |-> data ]

\* CycloneDXParser.parse_xml: the component elements of namespace
\* http://cyclonedx.org/schema/bom/1.4 (xmlns names the namespace of an
\* element); raw_data is empty.
CycloneDXParser_parse_xml(root) ==
  LET comps == SelectSeq(Get(root, "components", << >>),
                         LAMBDA comp : comp.xmlns = "http://cyclonedx.org/schema/bom/1.4")
  IN [ format |-> "cyclonedx", version |-> Get(root, "version", "unknown"),
       components |-> [ i \in 1..Len(comps) |->
                          [ name |-> Get(comps[i], "name", "unknown"),
                            version |-> Get(comps[i], "version", "unknown"),
                            component_type |-> Get(comps[i], "type", "library") ] ],
       raw_data |-> << >> ]

\* SPDXParser.parse_xml: the Package elements of no namespace.
SPDXParser_parse_xml(root) ==
  LET pkgs == SelectSeq(Get(root, "Package", << >>), LAMBDA pkg : pkg.xmlns = "")
  IN [ format |-> "spdx", version |-> Get(root, "spdxVersion", "unknown"),
       components |-> [ i \in 1..Len(pkgs) |->
                          [ name |-> Get(pkgs[i], "name", "unknown"),
                            version |-> Get(pkgs[i], "versionInfo", "unknown"),
                            component_type |-> "library" ] ],
       raw_data |-> << >> ]

\* SBOMParser._parse_json.  Only JSONDecodeError is caught here.  `key in
\* data` is a key test on a dict, a membership test on a list, a substring
\* test on a str and a TypeError on a number or null; data[key] and data.get
\* need a dict.
_parse_json(content) ==
  LET data == content.data
      chars == [ bomFormat |-> << "b", "o", "m", "F", "o", "r", "m", "a", "t" >>,
                 spdxVersion |-> << "s", "p", "d", "x", "V", "e", "r", "s", "i", "o", "n" >> ]
      in(key) == IF data.type = "dict" THEN key \in DOMAIN data.value
                 ELSE IF data.type = "list"
                 THEN \E i \in 1..Len(data.value) : data.value[i] = key
                 ELSE Substring(chars[key], data.value)
  IN IF ~content.utf8 THEN [ raised |-> "UnicodeDecodeError" ]
     ELSE IF content.syntax # "json"
     THEN [ raised |-> "SBOMParserException", message |-> << "Invalid JSON: ", "JSONDecodeError" >> ]
     ELSE IF data.type \in {"int", "null"} THEN [ raised |-> "TypeError" ]
     ELSE IF in("bomFormat") /\ data.type # "dict" THEN [ raised |-> "TypeError" ]
     ELSE IF in("bomFormat") /\ data.value.bomFormat = "CycloneDX"
     THEN CycloneDXParser_parse_json(data.value)
     ELSE IF in("spdxVersion")
     THEN IF data.type # "dict" THEN [ raised |-> "AttributeError" ]
          ELSE SPDXParser_parse_json(data.value)
     ELSE [ raised |-> "SBOMParserException", message |-> << "Unknown SBOM format in JSON" >> ]

\* SBOMParser._parse_xml.  Only ET.ParseError is caught here.
_parse_xml(content) ==
  IF ~content.utf8 THEN [ raised |-> "UnicodeDecodeError" ]
  ELSE IF content.syntax # "xml"
  THEN [ raised |-> "SBOMParserException", message |-> << "Invalid XML: ", "ParseError" >> ]
  ELSE IF Substring(<< "c", "y", "c", "l", "o", "n", "e", "d", "x" >>, lower(content.root.tag))
  THEN CycloneDXParser_parse_xml(content.root)
  ELSE IF Substring(<< "s", "p", "d", "x" >>, lower(content.root.tag))
  THEN SPDXParser_parse_xml(content.root)
  ELSE [ raised |-> "SBOMParserException", message |-> << "Unknown SBOM format in XML" >> ]

\* A variant without the except clause of lines 57-59.
SBOMParser_parse_NoExcept(content, filename) ==
  IF filename[Len(filename)] = ".json" THEN _parse_json(content)
  ELSE IF filename[Len(filename)] = ".xml" THEN _parse_xml(content)
  ELSE [ raised |-> "SBOMParserException", message |-> << "Unsupported file format: ", filename >> ]

\* A variant that picks the decoder that accepts the payload.
SBOMParser_parse_BySyntax(content, filename) ==
  LET result == IF content.utf8 /\ content.syntax = "xml"
                THEN _parse_xml(content) ELSE _parse_json(content)
  IN IF "raised" \in DOMAIN result
     THEN [ raised |-> "SBOMParserException", message |-> << "Failed to parse SBOM: ", result >> ]
     ELSE result

\* SBOMParser.parse: the extension of the filename picks the decoder; the
\* except clause turns every exception, an SBOMParserException too, into a
\* new SBOMParserException whose message ends with str(e).
SBOMParser_parse(content, filename) ==
  LET result == IF filename[Len(filename)] = ".json" THEN _parse_json(content)
                ELSE IF filename[Len(filename)] = ".xml" THEN _parse_xml(content)
                ELSE [ raised |-> "SBOMParserException",
                       message |-> << "Unsupported file format: ", filename >> ]
  IN IF "raised" \in DOMAIN result
     THEN [ raised |-> "SBOMParserException", message |-> << "Failed to parse SBOM: ", result >> ]
     ELSE result

\* Beside them scan_components, on up to MaxComponents components and on rows
\* among which are two with a criterion whose 'criteria' is None,
\* _parse_trivy_result, on the reports of Trivy, and update_trivy_db, on the
\* ways a subprocess.run of the trivy command can end: it exits with a return
\* code, it is killed at the timeout, or it cannot be started, and
\* SBOMParser.parse, on payloads of every kind under the extensions .json, .xml
\* and .txt, and save_scan_result, on what scan_components returns.
Calls ==
  LET Runs ==
        { [ returncode |-> 0 ], [ returncode |-> 1 ],
          [ raised |-> "TimeoutExpired" ], [ raised |-> "FileNotFoundError" ] }
      Json(type, value) ==
        [ utf8 |-> TRUE, syntax |-> "json", data |-> [ type |-> type, value |-> value ] ]
      Xml(tag, components, Package) ==
        [ utf8 |-> TRUE, syntax |-> "xml",
          root |-> [ tag |-> tag, components |-> components, Package |-> Package ] ]
      log4j == [ name |-> "log4j-core", version |-> "2.14.1", purl |-> "pkg:maven/log4j-core" ]
      zlib == [ name |-> "zlib" ]
      bom == [ xmlns |-> "http://cyclonedx.org/schema/bom/1.4", name |-> "log4j-core",
               version |-> "2.14.1" ]
      pkg == [ xmlns |-> "", name |-> "zlib", versionInfo |-> "1.2.11" ]
      Contents ==
        { [ utf8 |-> FALSE ], [ utf8 |-> TRUE, syntax |-> "text" ],
          Json("dict", [ bomFormat |-> "CycloneDX", specVersion |-> "1.4",
                         components |-> << log4j, zlib >> ]),
          Json("dict", [ bomFormat |-> "CycloneDX" ]),
          Json("dict", [ bomFormat |-> "CycloneDX", spdxVersion |-> "SPDX-2.3",
                         components |-> << zlib >>, packages |-> << log4j, zlib >> ]),
          Json("dict", [ bomFormat |-> "CycloneDX",
                         components |-> << log4j, [ str |-> "zlib" ] >> ]),
          Json("dict", [ bomFormat |-> "CycloneDX", metadata |-> [ null |-> TRUE ],
                         components |-> << log4j >> ]),
          Json("dict", [ bomFormat |-> "SPDX", spdxVersion |-> "SPDX-2.3",
                         packages |-> << [ name |-> "zlib", versionInfo |-> "1.2.11" ] >> ]),
          Json("dict", [ spdxVersion |-> "SPDX-2.3" ]),
          Json("dict", [ spdxVersion |-> "SPDX-2.3",
                         packages |-> << [ str |-> "zlib" ] >> ]),
          Json("dict", [ bomFormat |-> "SPDX" ]),
          Json("dict", << >>),
          Json("list", << >>), Json("list", << "bomFormat" >>),
          Json("list", << "spdxVersion" >>),
          Json("str", << "b", "o", "m", "F", "o", "r", "m", "a", "t" >>), Json("str", << "s", "p", "d", "x", "V", "e", "r", "s", "i", "o", "n", "s" >>),
          Json("str", << "x" >>),
          Json("int", 5), Json("null", 0),
          Xml(<< "{", "h", "t", "t", "p", ":", "/", "/", "c", "y", "c", "l", "o", "n", "e", "d", "x", ".", "o", "r", "g", "/", "s", "c", "h", "e", "m", "a", "/", "b", "o", "m", "/", "1", ".", "4", "}", "b", "o", "m" >>, << bom >>, << >>),
          Xml(<< "b", "o", "m" >>, << bom >>, << >>),
          Xml(<< "S", "p", "d", "x", "D", "o", "c", "u", "m", "e", "n", "t" >>, << >>, << pkg >>),
          Xml(<< "D", "o", "c", "u", "m", "e", "n", "t" >>, << >>, << pkg >>),
          Xml(<< "{", "u", "r", "n", ":", "c", "y", "c", "l", "o", "n", "e", "d", "x", "}", "s", "p", "d", "x" >>, << bom >>, << pkg >>) }
      NullCriteria ==
        { [ id |-> 7, severity |-> "LOW", cpe_match |->
              << [ criteria |-> None ],
                 [ criteria |-> << "c", "p", "e", ":", "2", ".", "3", ":", "a", ":", "a", "p", "a", "c", "h", "e", ":", "l", "o", "g", "4", "j", ":", "*" >>, versionEndExcluding |-> << "2", ".", "1", "5", ".", "0" >> ] >> ],
          [ id |-> 8, severity |-> "LOW", cpe_match |->
              << [ criteria |-> << "c", "p", "e", ":", "2", ".", "3", ":", "a", ":", "a", "p", "a", "c", "h", "e", ":", "l", "o", "g", "4", "j", ":", "*" >>, versionEndExcluding |-> << "2", ".", "1", "5", ".", "0" >> ],
                 [ criteria |-> None ] >> ] }
      ScanRows ==
        UNION { { rows \in [1..n -> Vulnerabilities \cup NullCriteria] :
                    \A i, k \in 1..n : rows[i] = rows[k] => i = k } : n \in 0..MaxRows }
  IN NormalizeCalls \cup VersionRangeCalls \cup MatchCpeCalls \cup IsVulnerableCalls
       \cup FindCalls
       \cup { [ op |-> "scan_components", pc |-> "call", components |-> components,
                rows |-> rows ] :
                components \in UNION { [1..n -> Components] : n \in 0..MaxComponents },
                rows \in ScanRows }
       \cup { [ op |-> "_parse_trivy_result", pc |-> "call", trivy_result |-> r ] :
                r \in TrivyReports }
       \cup { [ op |-> "update_trivy_db", pc |-> "call", version_run |-> v,
                download_run |-> d ] : v \in Runs, d \in Runs }
       \cup { [ op |-> "save_scan_result", pc |-> "call", sbom_id |-> 1,
                scan_results |-> scan_components(components, rows), scan_duration |-> 7,
                session |-> NewSession, idx |-> 0, scan_result_id |-> 0,
                raised_at |-> "none" ] :
                components \in UNION { [1..n -> Components] : n \in 0..MaxComponents },
                rows \in { r \in Rows : Len(r) <= 2 } }
       \cup { [ op |-> "SBOMParser.parse", pc |-> "call", content |-> content,
                filename |-> filename ] :
                content \in Contents,
                filename \in { << "bom", ".json" >>, << "bom", ".xml" >>, << "bom", ".txt" >> } }

\* The system at rest and one call of a function of the matcher.
MatcherInit ==
  /\ SBOM = {}
  /\ ScanResult = {}
  /\ ScanVulnerability = {}
  /\ Vulnerability = {}
  /\ seq = [SBOM |-> 1, ScanResult |-> 1, Vulnerability |-> 1]
  /\ tasks = [j \in JobIds |-> NoTask]
  /\ db = [j \in JobIds |-> NewSession]
  /\ trivy = [j \in JobIds |-> NoCall]
  /\ tempfiles = {}
  /\ reader = Idle
  /\ http = NoRequest
  /\ matcher \in Calls

\* The call returns: the matcher keeps the arguments and the value returned.
Returns(result) ==
  /\ matcher.pc = "call"
  /\ matcher' = [ f \in DOMAIN matcher \cup {"result"} |->
                    IF f = "result" THEN result
                    ELSE IF f = "pc" THEN "return" ELSE matcher[f] ]
  /\ UNCHANGED << SBOM, ScanResult, ScanVulnerability, Vulnerability, seq, tasks,
                  db, trivy, tempfiles, reader, http >>

normalize_component_name ==
  /\ matcher.op = "_normalize_component_name"
  /\ Returns(_normalize_component_name(matcher.name))

check_version_range ==
  /\ matcher.op = "_check_version_range"
  /\ Returns(_check_version_range(matcher.component_version,
               matcher.version_start_including, matcher.version_start_excluding,
               matcher.version_end_including, matcher.version_end_excluding))

match_cpe_product ==
  /\ matcher.op = "_match_cpe_product"
  /\ Returns(_match_cpe_product(matcher.cpe, matcher.component_name))

is_vulnerable ==
  /\ matcher.op = "_is_vulnerable"
  /\ Returns(_is_vulnerable(matcher.component, matcher.vulnerability))

find_vulnerabilities_for_component ==
  /\ matcher.op = "_find_vulnerabilities_for_component"
  /\ Returns(_find_vulnerabilities_for_component(matcher.component, matcher.rows))

\* A variant of the except clause that commits what the session holds.
db_rollback_Commit(session) ==
  IF session.state = "inactive" THEN NoRows ELSE Flush(session).flushed

\* self.db.rollback() of line 291, as the rows of the session that reach the
\* tables: none.
db_rollback(session) == NoRows

\* VulnerabilityScanner.save_scan_result on a session of its own, step by
\* step: add the ScanResult and flush (lines 257-272), add one
\* ScanVulnerability for every vulnerability of every vulnerable component
\* (275-285), commit (287), read scan_result.id again for the log line and
\* return (288-289).  Each step may raise; the except clause (290-293) then
\* leaves db_rollback(session) in the tables and raises.
save_scan_result ==
  LET m == matcher
      results == m.scan_results
      RECURSIVE Pairs(_)
      Pairs(n) ==
        IF n = 0 THEN << >>
        ELSE LET vuln_comp == results.vulnerable_components[n] IN
             Pairs(n - 1) \o [ i \in 1..Len(vuln_comp.vulnerabilities) |->
                                 [ component |-> vuln_comp.component,
                                   vulnerability |-> vuln_comp.vulnerabilities[i] ] ]
      pairs == Pairs(Len(results.vulnerable_components))
      scan_result ==
        [ id |-> seq.ScanResult, sbom_id |-> m.sbom_id, status |-> "completed",
          total_components |-> results.total_components,
          vulnerable_count |-> Len(results.vulnerable_components),
          critical_count |-> Get(results.severity_counts, "CRITICAL", 0),
          high_count |-> Get(results.severity_counts, "HIGH", 0),
          medium_count |-> Get(results.severity_counts, "MEDIUM", 0),
          low_count |-> Get(results.severity_counts, "LOW", 0),
          scan_duration_seconds |-> m.scan_duration ]
      \* _extract_matched_cpe: the first criteria that is not empty
      matched_cpe(cpe_match) ==
        LET criteria(i) == Get(cpe_match[i], "criteria", << >>)
            truthy == { i \in 1..Len(cpe_match) : criteria(i) \notin { << >>, None } }
        IN IF cpe_match = NoCpeMatch \/ truthy = {} THEN None
           ELSE criteria(CHOOSE i \in truthy : \A k \in truthy : i <= k)
      scan_vuln_of(n) ==
        [ scan_result_id |-> m.scan_result_id,
          vulnerability_id |-> pairs[n].vulnerability.id,
          component_name |-> pairs[n].component.name,
          component_version |-> pairs[n].component.version,
          matched_cpe |-> matched_cpe(pairs[n].vulnerability.cpe_match), n |-> n ]
      except(session) ==
        /\ matcher' = [m EXCEPT !.pc = "raised", !.raised_at = m.pc,
                                !.session = Ended(session)]
        /\ ScanResult' = ScanResult \cup db_rollback(session).ScanResult
        /\ ScanVulnerability' = ScanVulnerability \cup db_rollback(session).ScanVulnerability
        /\ UNCHANGED seq
  IN
  /\ m.op = "save_scan_result"
  /\ \E ok \in BOOLEAN :
       \/ /\ m.pc = "call"
          /\ IF ok
             THEN /\ matcher' = [m EXCEPT !.pc = "loop", !.idx = 1,
                                          !.scan_result_id = scan_result.id,
                                          !.session = Flush(Add(m.session, "ScanResult",
                                                                scan_result))]
                  /\ seq' = [seq EXCEPT !.ScanResult = @ + 1]
                  /\ UNCHANGED << ScanResult, ScanVulnerability >>
             ELSE except(Failed(m.session))
       \/ /\ m.pc = "loop" /\ m.idx <= Len(pairs)
          /\ IF ok
             THEN /\ matcher' = [m EXCEPT !.idx = @ + 1,
                                          !.session = Add(m.session, "ScanVulnerability",
                                                          scan_vuln_of(m.idx))]
                  /\ UNCHANGED << ScanResult, ScanVulnerability, seq >>
             ELSE except(m.session)
       \/ /\ m.pc = "loop" /\ m.idx > Len(pairs)
          /\ IF ok
             THEN /\ ScanResult' = ScanResult \cup Flush(m.session).flushed.ScanResult
                  /\ ScanVulnerability' =
                       ScanVulnerability \cup Flush(m.session).flushed.ScanVulnerability
                  /\ matcher' = [m EXCEPT !.pc = "committed", !.session = Ended(m.session)]
                  /\ UNCHANGED seq
             ELSE except(Failed(m.session))
       \/ /\ m.pc = "committed"
          /\ IF ok
             THEN /\ matcher' = [m EXCEPT !.pc = "return"]
                  /\ UNCHANGED << ScanResult, ScanVulnerability, seq >>
             ELSE except(m.session)
  /\ UNCHANGED << SBOM, Vulnerability, tasks, db, trivy, tempfiles, reader, http >>

MatcherNext ==
  \/ normalize_component_name
  \/ check_version_range
  \/ match_cpe_product
  \/ is_vulnerable
  \/ find_vulnerabilities_for_component
  \/ /\ matcher.op = "scan_components"
     /\ Returns(scan_components(matcher.components, matcher.rows))
  \/ /\ matcher.op = "_parse_trivy_result"
     /\ Returns(_parse_trivy_result(matcher.trivy_result))
  \/ /\ matcher.op = "update_trivy_db"
     /\ Returns(update_trivy_db(matcher.version_run, matcher.download_run))
  \/ /\ matcher.op = "SBOMParser.parse"
     /\ Returns(SBOMParser_parse(matcher.content, matcher.filename))
  \/ save_scan_result

MatcherSpec == MatcherInit /\ [][MatcherNext]_vars

\* ------------------------------------------------------------- clients
\* A client posts an upload and keeps what came of it.
post_upload(doc, filename) ==
  /\ upload_sbom_file(doc, filename)
  /\ http' = upload_response(doc, filename)

\* A client asks for a rescan and keeps what came of it.
post_rescan(sbom_id) ==
  /\ rescan_sbom(sbom_id)
  /\ http' = rescan_response(sbom_id)

\* The system with that client as the only one that posts, and nobody who
\* deletes.
ClientNext ==
  \/ \E doc \in Docs, filename \in Filenames : post_upload(doc, filename)
  \/ \E sbom_id \in 1..MaxSboms : post_rescan(sbom_id)
  \/ \E j \in JobIds : TaskStep(j)

ClientSpec == Init /\ [][ClientNext]_vars

\* ------------------------------------------------------- feed ingestion
\* CVE items as the NVD API returns them, cut down to the fields the model
\* stores: cve.id, the baseSeverity of the first CVSS 3.1 metric, and
\* cve.published.  The last item has no id.
CveData ==
  { [ cve |-> [ id |-> "CVE-1", baseSeverity |-> "MEDIUM", published |-> GoodDate ] ],
    [ cve |-> [ id |-> "CVE-2", baseSeverity |-> "LOW", published |-> GoodDate ] ],
    [ cve |-> [ id |-> "CVE-2", baseSeverity |-> "HIGH", published |-> BadDate ] ],
    [ cve |-> [ baseSeverity |-> "LOW", published |-> GoodDate ] ] }

\* NVDService.save_vulnerability_to_db, on a session of its own.  The query
\* of line 143 runs some time before the commit of line 229 or 246: `late`
\* says that the row with the cve_id was committed in between, so that the
\* query did not see it.  The INSERT of the commit waits while an open
\* transaction holds the cve_id, and fails on a committed row with it
\* (unique index of cve_id); every exception ends in db.rollback() and None.
save_vulnerability_to_db(cve_data) ==
  LET cve == cve_data.cve
      cve_id == Get(cve, "id", "")
      severity == Get(cve, "baseSeverity", "UNKNOWN")
      stored == { v \in Vulnerability : v.cve_id = cve_id }
  IN
  /\ \E late \in BOOLEAN :
       LET existing == IF late THEN {} ELSE stored IN
       IF cve_id = "" \/ FromIsoFormatRaises(Get(cve, "published", ""))
       THEN UNCHANGED << Vulnerability, seq >>
       ELSE IF existing # {}
       THEN /\ Vulnerability' = (Vulnerability \ existing)
                                  \cup { [ v EXCEPT !.severity = severity ] : v \in existing }
            /\ UNCHANGED seq
       ELSE /\ \A k \in JobIds : \A v \in Own(db[k], "Vulnerability") : v.cve_id # cve_id
            /\ IF stored # {}
               THEN UNCHANGED << Vulnerability, seq >>
               ELSE /\ Vulnerability' = Vulnerability \cup
                         { [ id |-> seq.Vulnerability, cve_id |-> cve_id, severity |-> severity ] }
                    /\ seq' = [seq EXCEPT !.Vulnerability = @ + 1]
  /\ UNCHANGED << SBOM, ScanResult, ScanVulnerability, tasks, db, trivy, tempfiles,
                  reader, http, matcher >>

\* Uploads, their scan tasks and the feed ingester side by side.
FeedNext ==
  \/ \E doc \in Docs, filename \in Filenames :
       upload_sbom_file(doc, filename) /\ UNCHANGED http
  \/ \E j \in JobIds : TaskStep(j)
  \/ \E cve_data \in CveData : save_vulnerability_to_db(cve_data)

FeedSpec == Init /\ [][FeedNext]_vars

\* ------------------------------------------------------------- claims
\* The ScanVulnerability rows committed for the completed row of task j.
RowsOf(j) ==
  { sv \in ScanVulnerability :
      tasks[j].scan_result_id # 0 /\ sv.scan_result_id = tasks[j].scan_result_id }

\* The execution has returned.
Done(j) == tasks[j].pc = "done"

\* C1: atomic persistence.  If a step of scan_sbom fails after the completed
\* ScanResult row was added to the session and before the commit of line 191
\* has succeeded, then once the task has ended neither that row nor any
\* ScanVulnerability row of it is committed.
C1_AtomicPersistence ==
  \A j \in JobIds :
    ( /\ Done(j)
      /\ tasks[j].scan_result_id # 0
      /\ tasks[j].raised_at \in {"loop", "flush"} )
    => /\ ~\E r \in ScanResult : r.id = tasks[j].scan_result_id
       /\ RowsOf(j) = {}

\* C2: what another session can observe.  Every committed completed
\* ScanResult has exactly one committed ScanVulnerability row per finding of
\* the scan that created it, and so has every response of get_scan_result.
C2_ReadersSeeWholeScans ==
  /\ \A r \in ScanResult :
       r.status = "completed" =>
         Cardinality({ sv \in ScanVulnerability : sv.scan_result_id = r.id }) = r.findings
  /\ ( reader.response.status_code = 200 /\ reader.response.status = "completed" )
       => Cardinality(reader.response.vulnerabilities) = reader.response.findings

\* The state changes of a task: created, taken by a worker, ended.
Lifecycle ==
  { << "none", "queued" >>, << "queued", "running" >>,
    << "running", "completed" >>, << "running", "failed" >> }

\* The task has ended (its return set the state).
Terminal(j) == tasks[j].state \in {"completed", "failed"}

\* C3: the job lifecycle.  A task's state changes only along
\* none -> queued -> running -> completed | failed; a completed or failed
\* task (its record, its subprocess call, its session) never changes again,
\* so it is never run again; queueing (upload or rescan) creates a task that
\* did not exist and leaves every other task as it is.
C3_JobLifecycle ==
  [][ \A j \in JobIds :
        /\ tasks'[j].state # tasks[j].state
             => << tasks[j].state, tasks'[j].state >> \in Lifecycle
        /\ Terminal(j)
             => tasks'[j] = tasks[j] /\ trivy'[j] = trivy[j] /\ db'[j] = db[j]
        /\ ( tasks[j].state = "none" /\ tasks'[j].state = "queued" )
             => \A k \in JobIds \ {j} : tasks'[k] = tasks[k] ]_vars

\* A failed execution and, beside it, a later execution for the same SBOM
\* that completed.
C3_Witness ==
  \E j, k \in JobIds :
    /\ j < k
    /\ tasks[j].sbom_id = tasks[k].sbom_id
    /\ tasks[j].state = "failed"
    /\ tasks[k].state = "completed"

\* C4: one row per execution.  Every execution of scan_sbom that has ended
\* has committed exactly one ScanResult row, completed or failed.
C4_ExactlyOneRow ==
  \A j \in JobIds :
    Done(j) => /\ Cardinality(tasks[j].wrote) = 1
               /\ tasks[j].wrote \subseteq {"completed", "failed"}

\* C5: the fallback row.  A committed failed ScanResult has zero counts and
\* no ScanVulnerability row refers to it; an execution that caught an
\* exception ends failed and reports that exception, whether or not the
\* write of the failed row went through, and writes at most that one failed
\* row.
C5_FallbackBestEffort ==
  /\ \A r \in ScanResult :
       r.status = "failed" =>
         /\ r.total_components = 0
         /\ r.vulnerable_count = 0
         /\ ~\E sv \in ScanVulnerability : sv.scan_result_id = r.id
  /\ \A j \in JobIds :
       ( Done(j) /\ tasks[j].raised # << >> ) =>
         /\ tasks[j].state = "failed"
         /\ tasks[j].ret.status = "failed"
         /\ tasks[j].ret.error = tasks[j].raised
         /\ Cardinality({ r \in ScanResult : r.task = j /\ r.status = "failed" }) <= 1

\* An execution whose flush failed and whose write of the failed row failed
\* too: no failed row, the first error reported.
C5_Witness ==
  \E j \in JobIds :
    /\ Done(j)
    /\ tasks[j].raised_at = "flush"
    /\ "failed" \notin tasks[j].wrote
    /\ tasks[j].ret.error = tasks[j].raised

\* The keys of the success payload (lines 196-205) besides the two ids.
SuccessFields ==
  { "status", "total_components", "vulnerable_count", "total_vulnerabilities",
    "severity_counts", "scan_duration_seconds" }

\* C6: scan_sbom never raises.  No execution ends by raising; an execution
\* that has ended returned either the failed payload with an error message
\* or the success payload with its statistics, and the failed one whenever
\* the scanner or the database failed.
C6_NeverRaises ==
  \A j \in JobIds :
    /\ tasks[j].state # "raised"
    /\ Done(j) =>
         \/ /\ tasks[j].state = "failed"
            /\ tasks[j].ret.status = "failed"
            /\ "error" \in DOMAIN tasks[j].ret
            /\ tasks[j].ret.error # << >>
            /\ tasks[j].raised \in { << >>, tasks[j].ret.error }
         \/ /\ tasks[j].state = "completed"
            /\ tasks[j].ret.status = "success"
            /\ SuccessFields \subseteq DOMAIN tasks[j].ret
            /\ tasks[j].raised = << >>

\* An execution that ended on a database error and one that completed.
C6_Witness ==
  \E j, k \in JobIds :
    /\ Done(j) /\ tasks[j].raised = << "DBAPIError" >> /\ tasks[j].ret.status = "failed"
    /\ Done(k) /\ tasks[k].ret.status = "success"

\* The committed ScanVulnerability rows that refer to a ScanResult of task j.
RowsOfTask(j) ==
  { sv \in ScanVulnerability :
      \E r \in ScanResult : r.task = j /\ r.id = sv.scan_result_id }

\* C7: exit codes.  When the subprocess exits with code 0 or 1 and prints
\* the JSON report, the task goes on with the parsed report (or stops on a
\* database error of its first flush); with any other code, or with output
\* that is not the report, the task ends failed with the adapter's message
\* and no ScanVulnerability row is or will be written for it.
C7_ExitCodes ==
  [][ \A j \in JobIds :
        ( tasks[j].pc = "trivy" /\ trivy'[j].proc = "exited" ) =>
        \A returncode \in ExitCodes, stdout \in Stdouts, stderr \in Stderrs :
        subprocess_exits(j, returncode, stdout, stderr) =>
          IF returncode \in {0, 1} /\ stdout # Garbage
          THEN \/ /\ tasks'[j].pc = "loop"
                  /\ tasks'[j].scan_results.status = "success"
                  /\ tasks'[j].scan_results = _parse_trivy_result(stdout)
               \/ /\ tasks'[j].state = "failed"
                  /\ tasks'[j].raised = << "DBAPIError" >>
          ELSE /\ tasks'[j].state = "failed"
               /\ tasks'[j].pc = "done"
               /\ tasks'[j].ret.status = "failed"
               /\ tasks'[j].ret.error =
                    IF returncode \in {0, 1}
                    THEN << "Trivy scan error: ", "JSONDecodeError" >>
                    ELSE << "Trivy scan failed: ", stderr >>
               /\ tasks'[j].scan_result_id = 0
               /\ RowsOfTask(j)' = {} ]_vars

\* An execution that ended failed with the message made from the stderr of
\* a subprocess that exited.
C7_Witness ==
  \E j \in JobIds, stderr \in Stderrs :
    /\ trivy[j].proc = "exited"
    /\ tasks[j].state = "failed"
    /\ tasks[j].ret.error = ExitMessage(stderr)
    /\ RowsOfTask(j) = {}

\* C8: the temporary file.  Once trivy_service.scan_sbom has returned (the
\* task is past the call), the temporary file of the call does not exist.
C8_TempFileRemoved ==
  \A j \in JobIds :
    tasks[j].pc \notin {"none", "queued", "start", "trivy"} => j \notin tempfiles

\* The fixed texts of the adapter's two other error messages.
OtherFailureTexts == { "Trivy scan failed: ", "Trivy scan error: " }

\* C9: the timeout.  A call whose subprocess was killed by the timeout ran
\* the subprocess once and its task ends failed with the timeout message,
\* whose fixed text is not that of the other two failure kinds; no call that
\* was not killed reports that message.
C9_TimeoutDistinct ==
  \A j \in JobIds :
    /\ trivy[j].proc = "killed" =>
         /\ trivy[j].runs = 1
         /\ Done(j)
         /\ tasks[j].ret.status = "failed"
         /\ tasks[j].ret.error = TimeoutMessage
         /\ Head(tasks[j].ret.error) \notin OtherFailureTexts
    /\ ( Done(j) /\ trivy[j].proc # "killed" /\ tasks[j].ret.status = "failed" ) =>
         tasks[j].ret.error # TimeoutMessage

\* A call that was killed by the timeout, beside one that failed otherwise.
C9_Witness ==
  \E j, k \in JobIds :
    /\ trivy[j].proc = "killed" /\ trivy[j].runs = 1
    /\ tasks[j].ret.error = TimeoutMessage
    /\ trivy[k].proc = "exited" /\ tasks[k].ret.status = "failed"

\* C10: termination.  Under fair scheduling every queued task eventually is
\* completed or failed, also when its subprocess never exits on its own.
C10_EveryJobEnds ==
  \A j \in JobIds :
    ( tasks[j].state = "queued" ) ~> ( tasks[j].state \in {"completed", "failed"} )

\* A task whose subprocess would never have exited, killed, and failed.
C10_Witness ==
  \E j \in JobIds :
    /\ ~ExitsOnItsOwn(trivy[j].runtime)
    /\ trivy[j].proc = "killed"
    /\ tasks[j].state = "failed"
    /\ j \notin tempfiles

\* The upload passes the checks that come before the fingerprint (lines
\* 25-38): the size and the name of the file.
Admitted(doc, filename) == doc.size <= MaxUploadBytes /\ EndsWithJsonOrXml(filename)

\* What an upload of stored bytes does: no parse, no new SBOM row, no change
\* of the ScanResult rows, one new task for the stored SBOM, which the
\* response names.
DuplicateEffect(doc) ==
  /\ ~http'.parsed
  /\ http'.status_code = 200
  /\ http'.is_duplicate
  /\ SBOM' = SBOM
  /\ ScanResult' = ScanResult
  /\ \E j \in JobIds :
       /\ tasks[j].state = "none"
       /\ tasks'[j].state = "queued"
       /\ tasks'[j].sbom_id \in { e.id : e \in Existing(doc) }
       /\ http'.scan_task_id = j
       /\ http'.sbom_id = tasks'[j].sbom_id
       /\ \A k \in JobIds \ {j} : tasks'[k] = tasks[k]

\* C11 as amended: an upload that passes the size and file name checks and
\* whose bytes have the fingerprint of a stored SBOM does not call the
\* parser, creates no SBOM row and queues exactly one new task for the
\* stored SBOM.
C11_DuplicateUpload ==
  [][ \A doc \in Docs, filename \in Filenames :
        ( /\ post_upload(doc, filename)
          /\ Existing(doc) # {}
          /\ Admitted(doc, filename) )
        => DuplicateEffect(doc) ]_vars

\* C11 as stated: every upload of bytes with the fingerprint of a stored
\* SBOM, whatever the name of the file, queues exactly one new task.
C11_AnyDuplicateUpload ==
  [][ \A doc \in Docs, filename \in Filenames :
        ( post_upload(doc, filename) /\ Existing(doc) # {} )
        => DuplicateEffect(doc) ]_vars

\* The client was answered is_duplicate; one SBOM is stored and the task of
\* the response is queued for it.
C11_Witness ==
  /\ http.status_code = 200
  /\ http.is_duplicate
  /\ ~http.parsed
  /\ Cardinality(SBOM) = 1
  /\ http.scan_task_id \in JobIds
  /\ tasks[http.scan_task_id].state = "queued"
  /\ \E s \in SBOM : s.id = http.sbom_id /\ tasks[http.scan_task_id].sbom_id = s.id

\* C12: parse errors.  An upload that reaches the parser (its bytes are not
\* stored) and that the parser rejects is answered 400 PARSE_ERROR, stores
\* no SBOM row and queues no task; and a task is only ever created by a
\* request that is answered 200 with that task's id.
C12_ParseErrorStopsUpload ==
  [][ /\ \A doc \in Docs, filename \in Filenames :
           ( /\ post_upload(doc, filename)
             /\ Admitted(doc, filename)
             /\ Existing(doc) = {}
             /\ ~doc.parses )
           => /\ http'.status_code = 400
              /\ http'.code = "PARSE_ERROR"
              /\ http'.parsed
              /\ http'.scan_task_id = 0
              /\ SBOM' = SBOM
              /\ tasks' = tasks
      /\ \A j \in JobIds :
           ( tasks[j].state = "none" /\ tasks'[j].state # "none" )
           => http'.status_code = 200 /\ http'.scan_task_id = j ]_vars

\* The client was answered PARSE_ERROR: nothing is stored, nothing queued.
C12_Witness ==
  /\ http.status_code = 400
  /\ http.code = "PARSE_ERROR"
  /\ http.parsed
  /\ SBOM = {}
  /\ Created = {}

\* A request for one more scan of the stored SBOM s would be accepted.
RescanAccepted(s) ==
  /\ ENABLED ( rescan_sbom(s.id) /\ tasks' # tasks )
  /\ ENABLED ( \E doc \in Docs, filename \in Filenames :
                 /\ Existing(doc) = {s}
                 /\ upload_sbom_file(doc, filename)
                 /\ tasks' # tasks )

\* C13: no mutual exclusion.  While a slot for a task is free, a rescan and
\* a duplicate upload of a stored SBOM are accepted whatever the tasks of
\* that SBOM are doing; and two executions that completed have each
\* committed a ScanResult row of their own.
C13_NoMutualExclusion ==
  /\ \A s \in SBOM : Cardinality(Created) < MaxJobs => RescanAccepted(s)
  /\ \A j, k \in JobIds :
       ( j # k /\ tasks[j].state = "completed" /\ tasks[k].state = "completed" )
       => /\ tasks[j].scan_result_id # tasks[k].scan_result_id
          /\ "completed" \in tasks[j].wrote
          /\ "completed" \in tasks[k].wrote

\* Two tasks for the same SBOM are running at once, each in its loop with a
\* completed row of its own flushed.
C13_Witness ==
  \E j, k \in JobIds :
    /\ j # k
    /\ tasks[j].sbom_id = tasks[k].sbom_id
    /\ tasks[j].state = "running" /\ tasks[j].pc = "loop"
    /\ tasks[k].state = "running" /\ tasks[k].pc = "loop"
    /\ tasks[j].scan_result_id # tasks[k].scan_result_id

\* Every committed row of the two tables is still there, as it was, and no
\* new row has the id of a committed ScanResult.
RowsKept ==
  /\ ScanResult \subseteq ScanResult'
  /\ ScanVulnerability \subseteq ScanVulnerability'
  /\ \A r \in ScanResult, q \in ScanResult' : q.id = r.id => q = r

\* C14: committed rows are not changed.  Every step other than a delete of
\* an SBOM (an upload, a duplicate upload, a rescan, a step of a task)
\* leaves every committed ScanResult and ScanVulnerability row as it is.
C14_RowsOnlyAdded ==
  [][ \/ \E sbom_id \in 1..MaxSboms : delete_sbom(sbom_id)
      \/ RowsKept ]_vars

\* The row of a first scan, completed, beside the row a later scan of the
\* same SBOM committed.
C14_Witness ==
  \E r, q \in ScanResult :
    /\ r.sbom_id = q.sbom_id
    /\ r.task < q.task
    /\ r.id < q.id
    /\ r.status = "completed"
    /\ \E sv \in ScanVulnerability : sv.scan_result_id = r.id

\* C20: normalized names.  The name _normalize_component_name returns has
\* only the characters a-z, 0-9 and the underscore, has no underscore at
\* either end and no two underscores side by side, and is the same for the
\* same input.
C20_NormalizedNames ==
  ( matcher.op = "_normalize_component_name" /\ matcher.pc = "return" ) =>
    LET normalized == matcher.result IN
      /\ \A i \in 1..Len(normalized) : normalized[i] \in AlphaNum \cup { "_" }
      /\ normalized # << >> =>
           normalized[1] # "_" /\ normalized[Len(normalized)] # "_"
      /\ \A i \in 1..(Len(normalized) - 1) :
           ~ ( normalized[i] = "_" /\ normalized[i + 1] = "_" )
      /\ normalized = _normalize_component_name(matcher.name)

\* A name with an uppercase letter and two symbols side by side has been
\* normalized.
C20_Witness ==
  /\ matcher.op = "_normalize_component_name" /\ matcher.pc = "return"
  /\ matcher.name = << "B", "-", "_", "7" >>
  /\ matcher.result = << "b", "_", "7" >>

\* The four bounds of the call of _check_version_range.
BoundsOfCall ==
  { matcher.version_start_including, matcher.version_start_excluding,
    matcher.version_end_including, matcher.version_end_excluding }

\* Version a comes before version b: the numbers of their dotted segments
\* are compared from the left, a segment that is missing counting as 0.
Precedes(a, b) ==
  LET A == split(a, ".")
      B == split(b, ".")
      n == IF Len(A) < Len(B) THEN Len(B) ELSE Len(A)
      segment(S, k) == IF k <= Len(S) THEN int(S[k]) ELSE 0
  IN \E k \in 1..n :
       /\ segment(A, k) < segment(B, k)
       /\ \A m \in 1..(k - 1) : segment(A, m) = segment(B, m)

\* C15: version ranges.  For a component version and bounds that all parse
\* as versions, _check_version_range returns true exactly when every bound
\* that is present holds (v >= startIncl, v > startExcl, v <= endIncl,
\* v < endExcl), versions being ordered by the numbers of their dotted
\* segments: 1.9.0 < 1.10.0, and between startIncl 1.0 and endExcl 2.0 lie
\* 1.0 and 1.9.9 but neither 0.9 nor 2.0.
C15_VersionRange ==
  ( /\ matcher.op = "_check_version_range" /\ matcher.pc = "return"
    /\ ~ InvalidVersion(matcher.component_version)
    /\ \A bound \in BoundsOfCall : bound = None \/ ~ InvalidVersion(bound) ) =>
    LET v == matcher.component_version
        startIncl == matcher.version_start_including
        startExcl == matcher.version_start_excluding
        endIncl == matcher.version_end_including
        endExcl == matcher.version_end_excluding
    IN /\ matcher.result =
            ( /\ startIncl # None => ~ Precedes(v, startIncl)
              /\ startExcl # None => Precedes(startExcl, v)
              /\ endIncl # None => ~ Precedes(endIncl, v)
              /\ endExcl # None => Precedes(v, endExcl) )
       /\ ( startIncl = << "1", ".", "0" >> /\ endExcl = << "2", ".", "0" >> /\ startExcl = None /\ endIncl = None ) =>
            /\ v \in { << "1", ".", "0" >>, << "1", ".", "9", ".", "9" >> } => matcher.result
            /\ v \in { << "0", ".", "9" >>, << "2", ".", "0" >> } => ~ matcher.result
       /\ ( BoundsOfCall = { None, << "1", ".", "1", "0", ".", "0" >> } /\ v = << "1", ".", "9", ".", "0" >> ) =>
            matcher.result = ( startIncl = None /\ startExcl = None )
       /\ ( BoundsOfCall = { None, << "1", ".", "9", ".", "0" >> } /\ v = << "1", ".", "1", "0", ".", "0" >> ) =>
            matcher.result = ( endIncl = None /\ endExcl = None )

\* 1.9.0 has been found between startIncl 1.0 and endExcl 1.10.0.
C15_Witness ==
  /\ matcher.op = "_check_version_range" /\ matcher.pc = "return"
  /\ matcher.component_version = << "1", ".", "9", ".", "0" >>
  /\ matcher.version_start_including = << "1", ".", "0" >>
  /\ matcher.version_start_excluding = None
  /\ matcher.version_end_including = None
  /\ matcher.version_end_excluding = << "1", ".", "1", "0", ".", "0" >>
  /\ matcher.result = TRUE

\* C16: versions that do not parse.  When the component's version does not
\* parse as a version, _check_version_range raises nothing and returns what
\* the comparison of the raw string with startIncl gives: true only if
\* startIncl is present and equal to it, false when startIncl is absent,
\* whatever the other bounds are.
C16_UnparsedVersionFallback ==
  ( /\ matcher.op = "_check_version_range" /\ matcher.pc = "return"
    /\ InvalidVersion(matcher.component_version) ) =>
    /\ matcher.result \in BOOLEAN
    /\ matcher.result =>
         /\ matcher.version_start_including # None
         /\ matcher.version_start_including = matcher.component_version
    /\ matcher.version_start_including = None => ~ matcher.result
    /\ matcher.result = ( /\ Truthy(matcher.version_start_including)
                          /\ matcher.version_start_including = matcher.component_version )

\* The version x has been matched by a criterion from startIncl x to
\* endExcl 2.0.
C16_Witness ==
  /\ matcher.op = "_check_version_range" /\ matcher.pc = "return"
  /\ matcher.component_version = << "x" >>
  /\ matcher.version_start_including = << "x" >>
  /\ matcher.version_end_excluding = << "2", ".", "0" >>
  /\ matcher.result = TRUE

\* The call has a start bound and an end bound that parse, the start bound
\* after the end bound.
Inverted ==
  \E start \in { matcher.version_start_including, matcher.version_start_excluding },
     end \in { matcher.version_end_including, matcher.version_end_excluding } :
    /\ Truthy(start) /\ ~ InvalidVersion(start)
    /\ Truthy(end) /\ ~ InvalidVersion(end)
    /\ Precedes(end, start)

C19_NameEligibility ==
  ( matcher.op = "_match_cpe_product" /\ matcher.pc = "return" ) =>
    LET parts == split(matcher.cpe, ":")
        n == matcher.component_name
    IN IF Len(parts) < 5 THEN matcher.result = FALSE
       ELSE LET vendor == lower(parts[4])
                product == lower(parts[5])
            IN matcher.result =
                 ( \/ Substring(product, n)
                   \/ Substring(n, product)
                   \/ vendor # << >> /\ Substring(vendor, n)
                   \/ vendor # << >> /\ Substring(vendor \o << "_" >> \o product, n) )

\* C19 as stated: with vendor and product the fourth and the fifth field of
\* the URI, the function returns true exactly when the product is a
\* substring of the name, or the name of the product, or the vendor or
\* vendor_product a substring of the name.
C19_FieldsAsWritten ==
  ( /\ matcher.op = "_match_cpe_product" /\ matcher.pc = "return"
    /\ Len(split(matcher.cpe, ":")) >= 5 ) =>
    LET vendor == split(matcher.cpe, ":")[4]
        product == split(matcher.cpe, ":")[5]
        n == matcher.component_name
    IN matcher.result =
         ( \/ Substring(product, n)
           \/ Substring(n, product)
           \/ Substring(vendor, n)
           \/ Substring(vendor \o << "_" >> \o product, n) )

\* The name org_apache_commons has been found eligible for a zlib of the
\* vendor apache.
C19_Witness ==
  /\ matcher.op = "_match_cpe_product" /\ matcher.pc = "return"
  /\ matcher.cpe = << "c", "p", "e", ":", "2", ".", "3", ":", "a", ":", "a", "p", "a", "c", "h", "e", ":", "z", "l", "i", "b" >>
  /\ matcher.component_name = << "o", "r", "g", "_", "a", "p", "a", "c", "h", "e", "_", "c", "o", "m", "m", "o", "n", "s" >>
  /\ matcher.result = TRUE

\* Criterion cpe_match passes the name check and the range check for the
\* component.
Passes(component, cpe_match) ==
  /\ "criteria" \in DOMAIN cpe_match
  /\ _match_cpe_product(cpe_match.criteria, _normalize_component_name(component.name))
  /\ _check_version_range(component.version,
       IF "versionStartIncluding" \in DOMAIN cpe_match
         THEN cpe_match.versionStartIncluding ELSE None,
       IF "versionStartExcluding" \in DOMAIN cpe_match
         THEN cpe_match.versionStartExcluding ELSE None,
       IF "versionEndIncluding" \in DOMAIN cpe_match
         THEN cpe_match.versionEndIncluding ELSE None,
       IF "versionEndExcluding" \in DOMAIN cpe_match
         THEN cpe_match.versionEndExcluding ELSE None)

\* The vulnerability has a criterion that passes for the component.
Matches(component, vulnerability) ==
  /\ vulnerability.cpe_match # NoCpeMatch
  /\ \E i \in 1..Len(vulnerability.cpe_match) :
       Passes(component, vulnerability.cpe_match[i])

C21_CountsAddUp ==
  LET RECURSIVE Sum(_, _)
      Sum(counts, keys) ==
        IF keys = {} THEN 0
        ELSE LET b == CHOOSE b \in keys : TRUE
             IN counts[b] + Sum(counts, keys \ {b})
      SumOfValues(counts) == Sum(counts, DOMAIN counts)
      RECURSIVE Pairs(_)
      Pairs(vulnerable_components) ==
        IF vulnerable_components = << >> THEN 0
        ELSE Len(Head(vulnerable_components).vulnerabilities)
               + Pairs(Tail(vulnerable_components))
  IN /\ ( /\ matcher.op = "scan_components" /\ matcher.pc = "return"
          /\ "raised" \notin DOMAIN matcher.result ) =>
          /\ SumOfValues(matcher.result.severity_counts)
               = Pairs(matcher.result.vulnerable_components)
          /\ SumOfValues(matcher.result.severity_counts)
               = Len(matcher.result.vulnerabilities_found)
     /\ ( matcher.op = "_parse_trivy_result" /\ matcher.pc = "return" ) =>
          /\ SumOfValues(matcher.result.severity_counts)
               = Len(matcher.result.vulnerabilities)
          /\ SumOfValues(matcher.result.severity_counts)
               = matcher.result.total_vulnerabilities

\* A scan of two components has found three matches, two of the first
\* component and one of the second.
C21_Witness ==
  /\ matcher.op = "scan_components" /\ matcher.pc = "return"
  /\ "raised" \notin DOMAIN matcher.result
  /\ Len(matcher.result.vulnerable_components) = 2
  /\ Len(matcher.result.vulnerable_components[1].vulnerabilities) = 2
  /\ Len(matcher.result.vulnerabilities_found) = 3

\* C22: vulnerable components are components.  Every committed ScanResult
\* row has a vulnerable_count that is at most its total_components.
C22_VulnerableAtMostTotal ==
  \A r \in ScanResult : r.vulnerable_count <= r.total_components

\* C23: the UNKNOWN bucket.  In what scan_components returns and in what
\* _parse_trivy_result returns the keys of severity_counts are the five
\* buckets, and a match whose severity is absent or is none of the five is
\* counted in UNKNOWN: every bucket counts the matches of its own severity,
\* UNKNOWN those of all other severities as well.
C23_UnknownBucket ==
  LET expected(record, field) ==
        IF field \in DOMAIN record /\ record[field] \in SeverityBuckets
        THEN record[field] ELSE "UNKNOWN"
      tallied(counts, matches, field) ==
        /\ DOMAIN counts = SeverityBuckets
        /\ \A b \in SeverityBuckets :
             counts[b] = Cardinality({ n \in 1..Len(matches) :
                                         expected(matches[n], field) = b })
  IN /\ ( /\ matcher.op = "scan_components" /\ matcher.pc = "return"
          /\ "raised" \notin DOMAIN matcher.result ) =>
          tallied(matcher.result.severity_counts,
                  matcher.result.vulnerabilities_found, "severity")
     /\ ( matcher.op = "_parse_trivy_result" /\ matcher.pc = "return" ) =>
          tallied(matcher.result.severity_counts,
                  matcher.result.vulnerabilities, "severity")

\* C24: malformed criteria are skipped.  scan_components does not raise
\* when a cpe_match list has an entry that cannot be evaluated (no
\* 'criteria', a 'criteria' that is null): it returns its result, in which
\* the components are counted.
C24_MalformedEntrySkipped ==
  ( matcher.op = "scan_components" /\ matcher.pc = "return" ) =>
    /\ "raised" \notin DOMAIN matcher.result
    /\ matcher.result.total_components = Len(matcher.components)

\* C25: after any interleaving of scan tasks and feed ingestions, no two
\* Vulnerability rows have the same cve_id.
C25_UniqueCveId == \A v, w \in Vulnerability : v.cve_id = w.cve_id => v = w

\* A scan task lost the race for CVE-1 against the ingester: its INSERT
\* failed on the row the feed had committed.
C25_Witness ==
  /\ \E v \in Vulnerability : v.cve_id = "CVE-1" /\ v.severity = "MEDIUM"
  /\ \E j \in JobIds : tasks[j].pc = "done" /\ tasks[j].raised = << "IntegrityError" >>

\* C26: re-ingesting a stored cve_id updates the row in place.  When the
\* feed ingester saves a well-formed CVE item, or a scan task commits a report
\* with a finding, for a cve_id that has a committed Vulnerability row, the row
\* with that cve_id then carries the severity that was supplied (the last one
\* supplied, when a report names the cve_id twice), under the id it had, and
\* no second row with the cve_id exists.
C26_ReingestUpdatesInPlace ==
  [][ LET updated(cve_id, severity) ==
            \A w \in Vulnerability :
              w.cve_id = cve_id =>
                /\ [ w EXCEPT !.severity = severity ] \in Vulnerability'
                /\ \A v \in Vulnerability' : v.cve_id = cve_id => v.id = w.id
      IN
      /\ \A cve_data \in CveData :
           ( /\ save_vulnerability_to_db(cve_data)
             /\ "id" \in DOMAIN cve_data.cve
             /\ ~FromIsoFormatRaises(cve_data.cve.published) )
           => updated(cve_data.cve.id, cve_data.cve.baseSeverity)
      /\ \A j \in JobIds :
           ( tasks[j].pc = "loop" /\ tasks'[j].pc = "committed" ) =>
             LET found == tasks[j].scan_results.vulnerabilities IN
             \A n \in 1..Len(found) :
               ( \A m \in (n + 1)..Len(found) : found[m].cve_id # found[n].cve_id )
               => updated(found[n].cve_id, found[n].severity) ]_vars

\* C27: write ordering.  Every ScanVulnerability row a scan task has added
\* to its session or flushed names a ScanResult row that the same transaction
\* has flushed and a Vulnerability row that the same transaction has flushed
\* or that is committed; every committed ScanVulnerability row names a
\* committed Vulnerability row.
C27_ReferencedRowsWrittenFirst ==
  /\ \A j \in JobIds :
       \A sv \in db[j].new.ScanVulnerability \cup db[j].flushed.ScanVulnerability :
         /\ \E r \in db[j].flushed.ScanResult : r.id = sv.scan_result_id
         /\ \E v \in db[j].flushed.Vulnerability \cup Vulnerability :
              v.id = sv.vulnerability_id
  /\ \A sv \in ScanVulnerability : \E v \in Vulnerability : v.id = sv.vulnerability_id

\* A transaction with two ScanVulnerability rows, one for a Vulnerability
\* row it flushed itself and one for a row that was committed before.
C27_Witness ==
  \E j \in JobIds :
    \E sv, sw \in db[j].new.ScanVulnerability \cup db[j].flushed.ScanVulnerability :
      /\ \E v \in db[j].flushed.Vulnerability : v.id = sv.vulnerability_id
      /\ \E v \in Vulnerability : v.id = sw.vulnerability_id

\* C28: the scheduled refresh reports its outcome.  update_trivy_db does not
\* raise, and the status of its result is 'success' exactly when Trivy is
\* installed and the download exited with 0; it is 'failed' when Trivy is not
\* installed, the download exited with another code, timed out or could not
\* be run.
C28_RefreshStatus ==
  ( matcher.op = "update_trivy_db" /\ matcher.pc = "return" ) =>
    LET succeeded(run) == "returncode" \in DOMAIN run /\ run.returncode = 0 IN
    /\ "raised" \notin DOMAIN matcher.result
    /\ matcher.result.status =
         IF succeeded(matcher.version_run) /\ succeeded(matcher.download_run)
         THEN "success" ELSE "failed"

\* C29: the parser returns a complete result or raises SBOMParserException.
\* Whatever the bytes and the filename, SBOMParser.parse either returns a
\* result with its format, its version, its raw data and one component for
\* every entry of the document's component list, or raises
\* SBOMParserException with a message; it raises for an undecodable or
\* malformed payload, for an extension other than .json and .xml and for a
\* JSON payload whose top level is not an object.
C29_ParseOrParserException ==
  ( matcher.op = "SBOMParser.parse" /\ matcher.pc = "return" ) =>
    LET content == matcher.content
        result == matcher.result
        listed == IF content.syntax = "xml"
                  THEN IF result.format = "cyclonedx"
                       THEN SelectSeq(content.root.components,
                                      LAMBDA c : c.xmlns = "http://cyclonedx.org/schema/bom/1.4")
                       ELSE content.root.Package
                  ELSE Get(content.data.value,
                           IF result.format = "cyclonedx" THEN "components" ELSE "packages",
                           << >>)
    IN
    /\ IF "raised" \in DOMAIN result
       THEN result.raised = "SBOMParserException" /\ result.message # << >>
       ELSE /\ DOMAIN result = {"format", "version", "components", "raw_data"}
            /\ Len(result.components) = Len(listed)
            /\ \A i \in 1..Len(listed) :
                 result.components[i].name = Get(listed[i], "name", "unknown")
    /\ ( \/ ~content.utf8
         \/ content.syntax = "text"
         \/ matcher.filename[2] = ".txt"
         \/ ( content.syntax = "json" /\ content.data.type # "dict" ) )
       => "raised" \in DOMAIN result

\* A JSON list with the item "bomFormat": indexing it raises TypeError, which
\* leaves parse as SBOMParserException.
C29_Witness ==
  /\ matcher.op = "SBOMParser.parse" /\ matcher.pc = "return"
  /\ matcher.filename[2] = ".json"
  /\ matcher.content.utf8 /\ matcher.content.syntax = "json"
  /\ matcher.content.data.type = "list" /\ matcher.content.data.value # << >>
  /\ "raised" \in DOMAIN matcher.result
  /\ matcher.result.raised = "SBOMParserException"

\* C30: the declared extension picks the decoder, the content the format.
\* Under .json a JSON object goes to the CycloneDX extractor when its
\* top-level bomFormat equals "CycloneDX" and otherwise to the SPDX extractor
\* when it has spdxVersion; under .xml an XML payload goes to the CycloneDX
\* extractor when its lower-cased root tag contains 'cyclonedx' and otherwise
\* to the SPDX extractor when it contains 'spdx'; parse returns what the
\* extractor returns and raises when the extractor raises.  Every other
\* payload, one whose syntax is not the declared one included, is rejected
\* with SBOMParserException.
C30_RoutedWithinDeclaredSyntax ==
  ( /\ matcher.op = "SBOMParser.parse" /\ matcher.pc = "return"
    /\ matcher.filename[2] \in {".json", ".xml"} ) =>
    LET content == matcher.content
        rejected == "raised" \in DOMAIN matcher.result
        Routed(r) == IF "raised" \in DOMAIN r THEN rejected ELSE matcher.result = r
        decoded(syntax) == content.utf8 /\ content.syntax = syntax
    IN IF matcher.filename[2] = ".json" /\ decoded("json") /\ content.data.type = "dict"
       THEN LET data == content.data.value IN
            IF Get(data, "bomFormat", "") = "CycloneDX"
            THEN Routed(CycloneDXParser_parse_json(data))
            ELSE IF "spdxVersion" \in DOMAIN data
            THEN Routed(SPDXParser_parse_json(data))
            ELSE rejected
       ELSE IF matcher.filename[2] = ".xml" /\ decoded("xml")
       THEN LET tag == lower(content.root.tag) IN
            IF Substring(<< "c", "y", "c", "l", "o", "n", "e", "d", "x" >>, tag)
            THEN Routed(CycloneDXParser_parse_xml(content.root))
            ELSE IF Substring(<< "s", "p", "d", "x" >>, tag)
            THEN Routed(SPDXParser_parse_xml(content.root))
            ELSE rejected
       ELSE rejected

\* A JSON object with both markers under .json: it went to the CycloneDX
\* extractor, which read its one component.
C30_Witness ==
  /\ matcher.op = "SBOMParser.parse" /\ matcher.pc = "return"
  /\ matcher.filename[2] = ".json"
  /\ matcher.content.utf8 /\ matcher.content.syntax = "json"
  /\ matcher.content.data.type = "dict"
  /\ {"bomFormat", "spdxVersion"} \subseteq DOMAIN matcher.content.data.value
  /\ "raised" \notin DOMAIN matcher.result
  /\ matcher.result.format = "cyclonedx"
  /\ Len(matcher.result.components) = 1

\* The statement as written: under both extensions a payload is routed by
\* its content, a JSON object by its top-level keys and an XML payload by its
\* root tag.
C30_RoutedByContent ==
  ( /\ matcher.op = "SBOMParser.parse" /\ matcher.pc = "return"
    /\ matcher.filename[2] \in {".json", ".xml"}
    /\ matcher.content.utf8 ) =>
    LET content == matcher.content
        Routed(r) == IF "raised" \in DOMAIN r THEN "raised" \in DOMAIN matcher.result
                     ELSE matcher.result = r
    IN /\ ( content.syntax = "json" /\ content.data.type = "dict" ) =>
            LET data == content.data.value IN
            /\ Get(data, "bomFormat", "") = "CycloneDX" =>
                 Routed(CycloneDXParser_parse_json(data))
            /\ ( Get(data, "bomFormat", "") # "CycloneDX" /\ "spdxVersion" \in DOMAIN data ) =>
                 Routed(SPDXParser_parse_json(data))
       /\ content.syntax = "xml" =>
            LET tag == lower(content.root.tag) IN
            /\ Substring(<< "c", "y", "c", "l", "o", "n", "e", "d", "x" >>, tag) => Routed(CycloneDXParser_parse_xml(content.root))
            /\ ( ~Substring(<< "c", "y", "c", "l", "o", "n", "e", "d", "x" >>, tag) /\ Substring(<< "s", "p", "d", "x" >>, tag) ) =>
                 Routed(SPDXParser_parse_xml(content.root))

\* C31: an SBOM with zero components is valid.  Parsing a CycloneDX or SPDX
\* document that lists no component returns a result with an empty component
\* list; and a scan of a stored SBOM without components whose Trivy report
\* has no finding holds, once its ScanResult is flushed, a completed row with
\* total_components = 0 and vulnerable_count = 0, commits that row, and
\* returns completed unless the database fails.
C31_ZeroComponents ==
  /\ LET Json(value) ==
           [ utf8 |-> TRUE, syntax |-> "json", data |-> [ type |-> "dict", value |-> value ] ]
         Xml(tag) ==
           [ utf8 |-> TRUE, syntax |-> "xml",
             root |-> [ tag |-> tag, components |-> << >>, Package |-> << >> ] ]
         empty(content, filename) ==
           LET parsed == SBOMParser_parse(content, filename) IN
           "raised" \notin DOMAIN parsed /\ parsed.components = << >>
     IN /\ empty(Json([ bomFormat |-> "CycloneDX", specVersion |-> "1.4" ]), << "bom", ".json" >>)
        /\ empty(Json([ bomFormat |-> "CycloneDX", components |-> << >> ]), << "bom", ".json" >>)
        /\ empty(Json([ spdxVersion |-> "SPDX-2.3", packages |-> << >> ]), << "bom", ".json" >>)
        /\ empty(Xml(<< "{", "h", "t", "t", "p", ":", "/", "/", "c", "y", "c", "l", "o", "n", "e", "d", "x", ".", "o", "r", "g", "/", "s", "c", "h", "e", "m", "a", "/", "b", "o", "m", "/", "1", ".", "4", "}", "b", "o", "m" >>), << "bom", ".xml" >>)
        /\ empty(Xml(<< "S", "p", "d", "x", "D", "o", "c", "u", "m", "e", "n", "t" >>), << "bom", ".xml" >>)
  /\ \A j \in JobIds :
       LET t == tasks[j]
           zero(r) == /\ r.status = "completed"
                      /\ r.total_components = 0 /\ r.vulnerable_count = 0
       IN
       /\ ( /\ t.pc \in {"loop", "committed"}
            /\ TotalComponents(t.sbom) = 0
            /\ t.scan_results.vulnerabilities = << >> ) =>
            \E r \in (IF t.pc = "loop" THEN db[j].flushed.ScanResult ELSE ScanResult) :
              r.id = t.scan_result_id /\ zero(r)
       /\ ( /\ Done(j) /\ t.scan_result_id # 0
            /\ \E s \in SBOM : s.id = t.sbom_id /\ TotalComponents(s) = 0
            /\ \E r \in ScanResult : r.id = t.scan_result_id /\ r.findings = 0 ) =>
            /\ \E r \in ScanResult : r.id = t.scan_result_id /\ zero(r)
            /\ t.raised \in { << >>, << "DBAPIError" >> }
            /\ t.raised = << >> =>
                 /\ t.state = "completed"
                 /\ t.ret.total_components = 0 /\ t.ret.vulnerable_count = 0

\* The scan of the stored SPDX document without packages has returned
\* completed, its row with both counts 0 is committed.
C31_Witness ==
  \E j \in JobIds :
    /\ Done(j) /\ tasks[j].state = "completed"
    /\ \E s \in SBOM : s.id = tasks[j].sbom_id /\ TotalComponents(s) = 0
    /\ \E r \in ScanResult :
         /\ r.id = tasks[j].scan_result_id /\ r.status = "completed"
         /\ r.total_components = 0 /\ r.vulnerable_count = 0

\* C32: save_scan_result is all-or-nothing.  In every state of a call either
\* no row of the call is committed, or its ScanResult row and one
\* ScanVulnerability row for every vulnerability of every vulnerable component
\* are; when the flush of the ScanResult, the adding of a ScanVulnerability
\* or the commit has raised, the call has raised to its caller with the
\* session rolled back and no row committed.
C32_AllOrNothing ==
  matcher.op = "save_scan_result" =>
    LET results == matcher.scan_results
        RECURSIVE Sum(_)
        Sum(n) == IF n = 0 THEN 0
                  ELSE Sum(n - 1) + Len(results.vulnerable_components[n].vulnerabilities)
        expected == Sum(Len(results.vulnerable_components))
        none == ScanResult = {} /\ ScanVulnerability = {}
        all == /\ \E r \in ScanResult :
                    /\ ScanResult = {r} /\ r.id = matcher.scan_result_id
                    /\ r.status = "completed"
               /\ Cardinality(ScanVulnerability) = expected
               /\ \A sv \in ScanVulnerability : sv.scan_result_id = matcher.scan_result_id
    IN /\ none \/ all
       /\ matcher.pc \in {"call", "loop"} => none
       /\ matcher.pc \in {"committed", "return"} => all
       /\ ( matcher.pc = "raised" /\ matcher.raised_at \in {"call", "loop"} ) =>
            none /\ matcher.session = Ended(matcher.session)

\* The commit raised after the ScanResult was flushed and two
\* ScanVulnerability rows were added.
C32_Witness ==
  /\ matcher.op = "save_scan_result" /\ matcher.pc = "raised"
  /\ matcher.raised_at = "loop" /\ matcher.idx = 3
  /\ matcher.scan_result_id # 0
  /\ ScanResult = {} /\ ScanVulnerability = {}

\* C33: the fallback with other bounds.  When the component's version does
\* not parse as a version and the criterion has a startExcl, an endIncl or an
\* endExcl, _check_version_range returns false, also when startIncl equals
\* the component's version string.
C33_OtherBoundsNoMatch ==
  ( /\ matcher.op = "_check_version_range" /\ matcher.pc = "return"
    /\ InvalidVersion(matcher.component_version)
    /\ \E bound \in { matcher.version_start_excluding, matcher.version_end_including,
                      matcher.version_end_excluding } : Truthy(bound) ) =>
    matcher.result = FALSE

\* C34: concurrent scans do not change each other's outcome.  No task ends
\* failed because of another task's row: the errors a task does not meet
\* when it runs alone, the violation of the unique index of cve_id by a row
\* another transaction committed after the task's query and the deadlock of
\* two inserting transactions, are never what a finished task has raised.
C34_NoInterference ==
  \A j \in JobIds :
    Done(j) => tasks[j].raised \notin { << "IntegrityError" >>, << "DeadlockDetected" >> }

\* --------------------------------------------------- uploads in flight
\* The upload handler as the requests of several clients run it: each
\* request has its own session, and the SELECT of line 45 and the commit of
\* line 105 are two steps with other requests' steps in between.  Here the
\* variable http holds the requests, by number: where each is in the
\* handler, what it uploaded and what it answered.
MaxUploads == 2

\* Lines 25-93 of a request: the size and extension checks, the hash, the
\* query for a stored SBOM with that hash.  With a stored one the request
\* ends here (scan_sbom.delay(existing.id), is_duplicate); with a failed
\* check it ends with its HTTPException; else the document is parsed and
\* the request goes on to its commit.
upload_sbom_file_query(r, doc, filename) ==
  LET path == UploadPath(doc, filename)
      request == [ doc |-> doc, filename |-> filename ]
  IN
  /\ http[r].pc = "none"
  /\ IF path = "duplicate"
     THEN /\ \E s \in Existing(doc) : delay(s.id)
          /\ http' = [http EXCEPT ![r] = [ pc |-> "done", request |-> request,
                                           response |-> upload_response(doc, filename) ]]
     ELSE IF path = "stored"
     THEN /\ http' = [http EXCEPT ![r] = [ pc |-> "parsed", request |-> request,
                                           response |-> NoRequest ]]
          /\ UNCHANGED tasks
     ELSE /\ http' = [http EXCEPT ![r] = [ pc |-> "done", request |-> request,
                                           response |-> upload_response(doc, filename) ]]
          /\ UNCHANGED tasks
  /\ UNCHANGED << SBOM, ScanResult, ScanVulnerability, Vulnerability, seq, db, trivy,
                  tempfiles, reader, matcher >>

\* Lines 96-141 of a request: db.add(sbom), db.commit(), db.refresh(sbom),
\* scan_sbom.delay(sbom.id) and the response.  The commit raises
\* IntegrityError when a row with the file_hash was committed since the
\* query; `except Exception` (line 136) turns it into 500 UPLOAD_FAILED and
\* no task is queued.
upload_sbom_file_commit(r) ==
  LET doc == http[r].request.doc
      filename == http[r].request.filename
  IN
  /\ http[r].pc = "parsed"
  /\ IF HashTaken(doc)
     THEN /\ http' = [http EXCEPT ![r].pc = "done",
                                  ![r].response =
                                     [NoRequest EXCEPT !.status_code = 500,
                                                       !.code = "UPLOAD_FAILED",
                                                       !.parsed = TRUE]]
          /\ UNCHANGED << SBOM, seq, tasks >>
     ELSE /\ seq.SBOM <= MaxSboms
          /\ SBOM' = SBOM \cup { [id |-> seq.SBOM, filename |-> filename,
                                  file_hash |-> doc.file_hash,
                                  format |-> doc.format, content_json |-> doc.raw_data] }
          /\ seq' = [seq EXCEPT !.SBOM = @ + 1]
          /\ delay(seq.SBOM)
          /\ http' = [http EXCEPT ![r].pc = "done",
                                  ![r].response =
                                     [ status_code |-> 200, code |-> "",
                                       is_duplicate |-> FALSE, sbom_id |-> seq.SBOM,
                                       scan_task_id |-> Cardinality(Created) + 1,
                                       parsed |-> TRUE ]]
  /\ UNCHANGED << ScanResult, ScanVulnerability, Vulnerability, db, trivy, tempfiles,
                  reader, matcher >>

\* The requests' steps and the workers' steps, in any order.
UploadNext ==
  \/ \E r \in 1..MaxUploads, doc \in Docs, filename \in Filenames :
       upload_sbom_file_query(r, doc, filename)
  \/ \E r \in 1..MaxUploads : upload_sbom_file_commit(r)
  \/ \E j \in JobIds : TaskStep(j)

UploadSpec ==
  /\ SBOM = {} /\ ScanResult = {} /\ ScanVulnerability = {} /\ Vulnerability = {}
  /\ seq = [SBOM |-> 1, ScanResult |-> 1, Vulnerability |-> 1]
  /\ tasks = [j \in JobIds |-> NoTask]
  /\ db = [j \in JobIds |-> NewSession]
  /\ trivy = [j \in JobIds |-> NoCall]
  /\ tempfiles = {} /\ reader = Idle /\ matcher = NoEvaluation
  /\ http = [r \in 1..MaxUploads |-> [pc |-> "none"]]
  /\ [][UploadNext]_vars

\* C35: concurrent uploads of the same bytes.  When two requests that
\* uploaded the same parseable document under an accepted file name have
\* both answered, one SBOM row has the document's file_hash, both answers
\* are 200, and each names a scan task of its own that was queued for that
\* row's id.
C35_BothSucceed ==
  \A r1, r2 \in 1..MaxUploads :
    ( /\ r1 # r2
      /\ http[r1].pc = "done" /\ http[r2].pc = "done"
      /\ http[r1].request.doc = http[r2].request.doc
      /\ http[r1].request.doc.parses
      /\ http[r1].request.doc.size <= MaxUploadBytes
      /\ EndsWithJsonOrXml(http[r1].request.filename)
      /\ EndsWithJsonOrXml(http[r2].request.filename) ) =>
    /\ Cardinality(Existing(http[r1].request.doc)) = 1
    /\ \A r \in {r1, r2} :
         /\ http[r].response.status_code = 200
         /\ http[r].response.scan_task_id \in JobIds
         /\ \A s \in Existing(http[r1].request.doc) :
              /\ http[r].response.sbom_id = s.id
              /\ tasks[http[r].response.scan_task_id].sbom_id = s.id
    /\ http[r1].response.scan_task_id # http[r2].response.scan_task_id

\* C36: nothing of a deleted SBOM stays or comes back.  Once the SBOM row
\* with an id the table handed out is gone, no ScanResult row has that
\* sbom_id and no ScanVulnerability row has the scan_result_id of a task
\* that scanned that SBOM, whatever the tasks queued or running for the id
\* do afterwards.
C36_NoRowsOfDeleted ==
  \A sbom_id \in 1..MaxSboms :
    ( sbom_id < seq.SBOM /\ ~\E s \in SBOM : s.id = sbom_id ) =>
    /\ ~\E r \in ScanResult : r.sbom_id = sbom_id
    /\ \A j \in JobIds :
         ( tasks[j].sbom_id = sbom_id /\ tasks[j].scan_result_id # 0 ) =>
         ~\E sv \in ScanVulnerability : sv.scan_result_id = tasks[j].scan_result_id

\* C37: total_components is the number of extracted components.  For every
\* upload SBOMParser.parse accepts, the count scan_sbom takes from the row
\* the upload stores (format and content_json are the parser's format and
\* raw_data, sbom.py 96-102) is the length of the parser's component list.
C37_TotalIsExtracted ==
  ( /\ matcher.op = "SBOMParser.parse" /\ matcher.pc = "return"
    /\ "raised" \notin DOMAIN matcher.result ) =>
    TotalComponents([ format |-> matcher.result.format,
                      content_json |-> matcher.result.raw_data ])
      = Len(matcher.result.components)

\* C38: the severity counts of a completed scan are the counts of its rows.
\* When a scan task commits its completed ScanResult, after any scans and
\* feed ingestions before it, critical_count, high_count, medium_count and
\* low_count of that row are the numbers of the row's ScanVulnerability rows
\* whose Vulnerability row (vulnerability_id) has the severity CRITICAL, HIGH,
\* MEDIUM and LOW.
C38_CountsMatchRows ==
  [][ \A j \in JobIds :
        ( tasks[j].pc = "loop" /\ tasks'[j].pc = "committed" ) =>
        \A r \in ScanResult' \ ScanResult :
          r.status = "completed" =>
          LET linked(severity) ==
                Cardinality({ sv \in ScanVulnerability' :
                                /\ sv.scan_result_id = r.id
                                /\ \E v \in Vulnerability' :
                                     v.id = sv.vulnerability_id /\ v.severity = severity })
          IN /\ r.critical_count = linked("CRITICAL")
             /\ r.high_count = linked("HIGH")
             /\ r.medium_count = linked("MEDIUM")
             /\ r.low_count = linked("LOW") ]_vars

\* C39: empty names are not name-eligible.  _match_cpe_product returns false
\* when the normalized component name is the empty string, and when the CPE
\* URI of the criterion has an empty product field.
C39_EmptyNeverEligible ==
  ( /\ matcher.op = "_match_cpe_product" /\ matcher.pc = "return"
    /\ \/ matcher.component_name = << >>
       \/ /\ Len(split(matcher.cpe, ":")) >= 5
          /\ split(matcher.cpe, ":")[5] = << >> ) =>
    matcher.result = FALSE

====
